---- MODULE Spec2Model ----
(***************************************************************************)
(* Hybrid retrieval engine of second-brain-web: the vector ranker          *)
(* (lib/similarity.ts), the chunker (lib/chunk.ts), the context assembler  *)
(* (lib/rag.ts), the two query routes (api/query, api/query-stream), the   *)
(* deletion of a conversation and the upload of a document.                *)
(*                                                                         *)
(* Each component has its own specification over the shared variables:     *)
(*   RankSpec     rankByCosine, one step per candidate                     *)
(*   ChunkSpec    chunkText, one step per loop test and per loop body      *)
(*   ChunkFairSpec  the same, run to completion                            *)
(*   CtxSpec      buildContext, one step per fragment                      *)
(*   QuerySpec    one request to POST /api/query or POST /api/query-stream *)
(*                over a stored corpus, one step per awaited call          *)
(*   DeleteSpec   the retrieval steps of a query alongside                 *)
(*                DELETE /api/conversations/[id]                           *)
(*   LifecycleSpec  POST /api/upload alongside that DELETE                 *)
(*                                                                         *)
(* Similarities are kept exact.  cosine = dot / (|q| * |v|) is irrational  *)
(* in general, so a similarity s is stored as the fraction num / den with  *)
(* num = sign(dot) * dot^2 and den = |q|^2 * |v|^2, that is as             *)
(* sign(s) * s^2.  x |-> sign(x) * x^2 is strictly increasing, so every    *)
(* comparison and every equality of similarities is preserved.             *)
(***************************************************************************)
EXTENDS Integers, Sequences, FiniteSets, TLC

(***************************************************************************)
(* Bounds of the model.                                                    *)
(***************************************************************************)
MaxCands == 3
MaxTopK == 3
MaxTextLen == 5
MaxSize == 3
MaxOverlap == 3
MaxChosen == 3
MaxChars == 60
MaxChunks == 3
MaxDeltas == 2

(***************************************************************************)
(* Inputs of the ranker.  Candidate vectors of the query's length, shorter *)
(* and longer ones, empty and zero vectors, and pairs of equal similarity. *)
(***************************************************************************)
QueryVecs == { <<1, 0>>, <<1, 1>>, <<0, 0>>, <<>> }
CandVecs == { <<1, 0>>, <<0, 1>>, <<1, 1>>, <<2, 2>>, <<-1, 0>>, <<0, 0>>,
              <<>>, <<1>>, <<0, 1, 1>>, <<1, 0, 2>> }

VARIABLES
    \* rankByCosine
    query,        \* the query vector
    vectors,      \* the candidates, in the order supplied
    topK,         \* the number of results asked for
    i,            \* start of the current batch (0-based)
    k,            \* offset of the next item within the batch
    topKHeap,     \* the working set
    rankResult,   \* the value returned
    rankPc,       \* "off" | "call" | "loop" | "done" | "threw"
    \* chunkText
    input,        \* the text passed in
    text,         \* input.trim()
    chunkSize,
    overlap,
    startIndex,
    chunkIndex,
    chunks,       \* the fragments emitted so far
    chunkPc,      \* "off" | "call" | "test" | "body" | "done"
    \* buildContext
    chosen,        \* the ranked fragments passed in
    maxChars,
    ci,            \* number of fragments the for-loop has taken
    contextParts,
    sources,
    currentLength,
    ctxResult,     \* the value returned
    ctxPc,         \* "off" | "call" | "loop" | "done"
    \* the store (prisma)
    conversations, \* ids of the Conversation rows
    documents,     \* Document rows by id
    chunkRows,     \* Chunk rows by id
    embeddingRows, \* Embedding rows, by ascending id
    messages,      \* Message rows, by ascending id
    messageSources,
    \* one request to a query route
    route,         \* "query" | "stream"
    question,
    conversationId,
    qPc,           \* "off" | "start" | "embed" | "prefilter" | "fetch" |
                   \* "generate" | "persist" | "done"
    queryVector,
    ftsFailed,     \* the prefilter query raised
    candidateChunkIds,
    embeddings,    \* the rows findMany returned
    vectorRows,    \* the rows handed to rankByCosine
    chosenRows,    \* what rankByCosine returned
    built,         \* what buildContext returned
    prompt,
    sourcesWithDocId,
    fullAnswer,
    genThrew,      \* the generator raised
    events,        \* the events enqueued on the response stream
    response,      \* the HTTP response
    aborted,       \* request.signal has fired
    abortAt,       \* Len(events) when the generator caught the AbortError,
                   \* -1 before
    writes,        \* writes of the persist step that succeeded, -1 before
    readViews,     \* for each read of the store so far, the rows of the
                   \* request's scope that were stored at that moment
    \* DELETE /api/conversations/[id]
    dConv,         \* the id in the path (0: not a number)
    dPc,           \* "off" | "start" | "conversation" | "embeddings" |
                   \* "chunks" | "documents" | "respond" | "done"
    documentIds,   \* ids of the documents found at the start
    docsRemoved,
    dResponse,
    \* POST /api/upload
    uConv,         \* the conversationId of the form
    uPc,           \* "off" | "start" | "create" | "find" | "chunks" |
                   \* "inserted" | "embeddings" | "done"
    uDoc,          \* id of the Document row created, 0 before
    insertedChunks,
    uResponse,
    \* history
    initialStore,  \* the documents, chunks and embeddings stored at the start
    belonged,      \* for each conversation, the documents created in it
    \* POST /api/embed
    eDoc,          \* the documentId of the body (0: not a number)
    ePc,           \* "off" | "start" | "document" | "chunks" | "inserted" |
                   \* "embeddings" | "done"
    eInserted,     \* the chunks read back
    eResponse,
    \* cosine
    cosA,
    cosB,
    cosResult,     \* the value returned
    cosPc          \* "off" | "call" | "returned"

rankVars == <<query, vectors, topK, i, k, topKHeap, rankResult, rankPc>>
chunkVars == <<input, text, chunkSize, overlap, startIndex, chunkIndex, chunks,
               chunkPc>>
ctxVars == <<chosen, maxChars, ci, contextParts, sources, currentLength,
             ctxResult, ctxPc>>
storeVars == <<conversations, documents, chunkRows, embeddingRows, messages,
               messageSources>>
cancelVars == <<aborted, abortAt>>
reqVars == <<route, question, conversationId, qPc, queryVector, ftsFailed,
             candidateChunkIds, embeddings, vectorRows, chosenRows, built,
             prompt, sourcesWithDocId, fullAnswer, genThrew, events, response,
             cancelVars, writes, readViews>>
delVars == <<dConv, dPc, documentIds, docsRemoved, dResponse>>
upVars == <<uConv, uPc, uDoc, insertedChunks, uResponse>>
histVars == <<initialStore, belonged>>
cosVars == <<cosA, cosB, cosResult, cosPc>>
embVars == <<eDoc, ePc, eInserted, eResponse>>
vars == <<rankVars, chunkVars, ctxVars, storeVars, reqVars, delVars, upVars,
          histVars, cosVars, embVars>>
notRankVars == <<chunkVars, ctxVars, storeVars, reqVars, delVars, upVars,
                 histVars, cosVars, embVars>>
notChunkVars == <<rankVars, ctxVars, storeVars, reqVars, delVars, upVars,
                  histVars, cosVars, embVars>>
notCtxVars == <<rankVars, chunkVars, storeVars, reqVars, delVars, upVars,
                histVars, cosVars, embVars>>
notQueryVars == <<rankVars, chunkVars, ctxVars, delVars, upVars, histVars,
                  cosVars, embVars>>
notDeleteVars == <<rankVars, chunkVars, ctxVars, reqVars, upVars, cosVars,
                   embVars>>
notUploadVars == <<rankVars, chunkVars, ctxVars, reqVars, delVars, cosVars,
                   embVars>>
notCosVars == <<rankVars, chunkVars, ctxVars, storeVars, reqVars, delVars,
                upVars, histVars, embVars>>
notEmbedVars == <<rankVars, chunkVars, ctxVars, reqVars, delVars, upVars,
                  cosVars>>

(***************************************************************************)
(* Helpers.                                                                *)
(***************************************************************************)
Min(a, b) == IF a < b THEN a ELSE b

RECURSIVE SumTo(_, _)
\* f[1] + ... + f[n]
SumTo(f, n) == IF n = 0 THEN 0 ELSE SumTo(f, n - 1) + f[n]

Sgn(x) == IF x > 0 THEN 1 ELSE IF x < 0 THEN 0 - 1 ELSE 0

ZeroSim == [num |-> 0, den |-> 1]
SimGT(a, b) == a.num * b.den > b.num * a.den
SimEQ(a, b) == a.num * b.den = b.num * a.den

(***************************************************************************)
(* The similarity rankByCosine computes for one item.  The loop runs over  *)
(* the QUERY's indices: an item shorter than the query reads undefined,    *)
(* both sums become NaN and `itemNorm > 0` is false; an item longer than   *)
(* the query is compared on its first query.length components only.        *)
(***************************************************************************)
QueryNormSq(q) == SumTo([j \in 1..Len(q) |-> q[j] * q[j]], Len(q))

Similarity(q, v) ==
    IF Len(v) < Len(q)
    THEN ZeroSim
    ELSE LET dotProduct == SumTo([j \in 1..Len(q) |-> q[j] * v[j]], Len(q))
             itemNormSq == SumTo([j \in 1..Len(q) |-> v[j] * v[j]], Len(q))
         IN  IF itemNormSq > 0 /\ QueryNormSq(q) > 0
             THEN [num |-> Sgn(dotProduct) * dotProduct * dotProduct,
                   den |-> QueryNormSq(q) * itemNormSq]
             ELSE ZeroSim

(***************************************************************************)
(* The numbers of cosine are IEEE 754 doubles: a sign, a significand of 53 *)
(* bits and a power of two, every operation rounded to the nearest, ties   *)
(* to even.  A natural number of up to 117 bits is a sequence of Limbs     *)
(* digits in base Base, the least significant first.                       *)
(***************************************************************************)
LimbBits == 13
Base == 8192
Limbs == 9
SigBits == 53

\* the digits of the number whose columns are raw, each column below 2^30
Carry(raw) ==
    LET s1 == raw[1]
        s2 == raw[2] + (s1 \div Base)
        s3 == raw[3] + (s2 \div Base)
        s4 == raw[4] + (s3 \div Base)
        s5 == raw[5] + (s4 \div Base)
        s6 == raw[6] + (s5 \div Base)
        s7 == raw[7] + (s6 \div Base)
        s8 == raw[8] + (s7 \div Base)
        s9 == raw[9] + (s8 \div Base)
    IN  <<s1 % Base, s2 % Base, s3 % Base, s4 % Base, s5 % Base, s6 % Base,
          s7 % Base, s8 % Base, s9 % Base>>

\* the j-th product of column c of x * y
Term(x, y, c, j) == IF j <= c THEN x[j] * y[c + 1 - j] ELSE 0

Column(x, y, c) ==
    ((Term(x, y, c, 1) + Term(x, y, c, 2))
        + (Term(x, y, c, 3) + Term(x, y, c, 4)))
    + ((Term(x, y, c, 5) + Term(x, y, c, 6))
        + (Term(x, y, c, 7) + Term(x, y, c, 8)))
    + Term(x, y, c, 9)

\* An operand that is used more than once is bound once, as the only element
\* of a set, and the result is the only element of the set of results.
BigOf(n) ==
    CHOOSE r \in { Carry([j \in 1..Limbs |-> IF j = 1 THEN m ELSE 0]) :
                   m \in {n} } : TRUE

BigAdd(x, y) ==
    CHOOSE r \in { Carry([j \in 1..Limbs |-> u[j] + v[j]]) :
                   u \in {x}, v \in {y} } : TRUE

BigMul(x, y) ==
    CHOOSE r \in { Carry([c \in 1..Limbs |-> Column(u, v, c)]) :
                   u \in {x}, v \in {y} } : TRUE

BigPow2(e) ==
    [j \in 1..Limbs |-> IF j = (e \div LimbBits) + 1 THEN 2 ^ (e % LimbBits)
                        ELSE 0]

\* x <= y: at the most significant digit where they differ, x has the smaller
BigLE(x, y) ==
    \E u \in {x}, v \in {y} :
        \/ \A j \in 1..Limbs : u[j] = v[j]
        \/ \E j \in 1..Limbs :
              /\ u[j] < v[j]
              /\ \A h \in (j + 1)..Limbs : u[h] = v[h]

BigOdd(x) == x[1] % 2 = 1

\* a double: sign * sig * 2^exp with 2^52 <= sig < 2^53, zero, or NaN
FZero == [nan |-> FALSE, sign |-> 0, sig |-> BigOf(0), exp |-> 0]
FNaN == [nan |-> TRUE, sign |-> 0, sig |-> BigOf(0), exp |-> 0]

\* sig * 2^exp with sig <= 2^53 brought to 2^52 <= sig < 2^53
Normal(sign, sig, exp) ==
    CHOOSE r \in
        { IF m = BigPow2(SigBits)
          THEN [nan |-> FALSE, sign |-> sign, sig |-> BigPow2(SigBits - 1),
                exp |-> exp + 1]
          ELSE [nan |-> FALSE, sign |-> sign, sig |-> m, exp |-> exp] :
          m \in {sig} } : TRUE

\* floor(x / y) rounded to the nearest, ties to even, given q = floor(x / y):
\* 2x is compared with (2q + 1) * y
Nearest(x, y, q) ==
    CHOOSE r \in
        { IF twice = mid
          THEN IF BigOdd(w) THEN BigAdd(w, BigOf(1)) ELSE w
          ELSE IF BigLE(mid, twice) THEN BigAdd(w, BigOf(1)) ELSE w :
          w \in {q}, twice \in {BigAdd(x, x)},
          mid \in {BigMul(BigAdd(BigAdd(q, q), BigOf(1)), y)} } : TRUE

RECURSIVE Log4(_)
\* the e with 4^e <= n < 4^(e + 1), n >= 1
Log4(n) == IF n < 4 THEN 0 ELSE 1 + Log4(n \div 4)

RECURSIVE Log2(_)
\* the e with 2^e <= n < 2^(e + 1), n >= 1
Log2(n) == IF n < 2 THEN 0 ELSE 1 + Log2(n \div 2)

\* one bit of a quotient or root found by trial: q with bit j set when that
\* still fits x, that is q' * q' <= x for a root and q' * y <= x for a
\* quotient
Try(x, y, root, q, j) ==
    CHOOSE r \in
        { IF BigLE(BigMul(t, IF root THEN t ELSE y), x) THEN t ELSE q :
          t \in {BigAdd(q, BigPow2(j))} } : TRUE

RECURSIVE Digit(_, _, _, _, _, _)
\* q with the n bits from bit j downwards found in turn
Digit(x, y, root, q, j, n) ==
    IF n = 0 \/ j < 0 THEN q
    ELSE CHOOSE r \in { Digit(x, y, root, t, j - 1, n - 1) :
                        t \in {Try(x, y, root, q, j)} } : TRUE

RECURSIVE Floor(_, _, _, _, _)
\* the largest number that fits x and has the bits of q above bit j, found
\* one digit of LimbBits bits after the other
Floor(x, y, root, q, j) ==
    IF j < 0 THEN q
    ELSE CHOOSE r \in { Floor(x, y, root, d, j - LimbBits) :
                        d \in {Digit(x, y, root, q, j, LimbBits)} } : TRUE

\* floor(sqrt(x)) and floor(x / y), both below 2^53, from bit 52 downwards
SqrtFloor(x) ==
    CHOOSE r \in { Floor(u, u, TRUE, BigOf(0), SigBits - 1) :
                   u \in {x} } : TRUE

DivFloor(x, y) ==
    CHOOSE r \in { Floor(u, v, FALSE, BigOf(0), SigBits - 1) :
                   u \in {x}, v \in {y} } : TRUE

\* f = floor(sqrt(x)) rounded to the nearest: up when x > f^2 + f, that is
\* sqrt(x) > f + 1/2
RootNearest(x, f) ==
    CHOOSE r \in { IF BigLE(x, BigAdd(BigMul(g, g), g)) THEN g
                   ELSE BigAdd(g, BigOf(1)) :
                   g \in {f} } : TRUE

\* Math.sqrt(n) for an integer n >= 0, from the root of n * 4^s with 53 bits
FSqrt(n) ==
    IF n = 0 THEN FZero
    ELSE CHOOSE r \in
           { Normal(1, RootNearest(x, SqrtFloor(x)), Log4(m) + 1 - SigBits) :
             m \in {n},
             x \in {BigMul(BigOf(n),
                           BigPow2(2 * (SigBits - 1 - Log4(n))))} } : TRUE

\* the bits of p from bit drop upwards
Shifted(p, drop) ==
    [j \in 1..Limbs |->
        LET w == j + (drop \div LimbBits)
            r == drop % LimbBits
            lo == IF w <= Limbs THEN p[w] \div (2 ^ r) ELSE 0
            hi == IF w + 1 <= Limbs
                  THEN (p[w + 1] % (2 ^ r)) * (2 ^ (LimbBits - r))
                  ELSE 0
        IN  lo + hi]

\* the 106-bit or 105-bit product p rounded to its 53 leading bits
Leading(p, exp) ==
    CHOOSE r \in
        { Normal(1, Nearest(u, BigPow2(drop), Shifted(u, drop)), exp + drop) :
          u \in {p},
          drop \in {IF BigLE(BigPow2(2 * SigBits - 1), p) THEN SigBits
                    ELSE SigBits - 1} } : TRUE

\* x * y of two positive doubles
FMul(x, y) ==
    CHOOSE r \in { Leading(BigMul(a.sig, b.sig), a.exp + b.exp) :
                   a \in {x}, b \in {y} } : TRUE

\* d / y rounded, d >= 1 an integer and y a positive double: the quotient of
\* d * 2^s by the significand of y has 53 bits
Quotient(sign, d, y, s) ==
    CHOOSE r \in
        { Normal(sign, Nearest(x, y.sig, DivFloor(x, y.sig)), 0 - s - y.exp) :
          x \in {BigMul(BigOf(d), BigPow2(s))} } : TRUE

\* n / y for an integer n # 0 and a positive double y
FDiv(n, y) ==
    CHOOSE r \in
        { Quotient(Sgn(n), d, b,
                   IF BigLE(BigMul(b.sig, BigPow2(SigBits - 1)),
                            BigMul(BigOf(d), BigPow2(s0)))
                   THEN s0 ELSE s0 + 1) :
          d \in {IF n < 0 THEN 0 - n ELSE n}, b \in {y},
          s0 \in {2 * (SigBits - 1) - Log2(IF n < 0 THEN 0 - n ELSE n)} } : TRUE

FOne == [nan |-> FALSE, sign |-> 1, sig |-> BigPow2(SigBits - 1),
         exp |-> 1 - SigBits]
FMinusOne == [FOne EXCEPT !.sign = 0 - 1]

\* cosine without its guard on the norms: 0 / 0 and x / 0 as the quotient
cosineNoNormGuard(a, b) ==
    IF Len(a) # Len(b) THEN FZero
    ELSE IF Len(a) = 0 THEN FZero
    ELSE LET dotProduct == SumTo([j \in 1..Len(a) |-> a[j] * b[j]], Len(a))
             normA == FSqrt(SumTo([j \in 1..Len(a) |-> a[j] * a[j]], Len(a)))
             normB == FSqrt(SumTo([j \in 1..Len(a) |-> b[j] * b[j]], Len(a)))
         IN  IF normA = FZero \/ normB = FZero THEN FNaN
             ELSE IF dotProduct = 0 THEN FZero
             ELSE FDiv(dotProduct, FMul(normA, normB))

(***************************************************************************)
(* cosine(a, b), part_002 lines 12-46, for vectors of small integers: the  *)
(* products and the three sums are integers far below 2^53 and so exact;   *)
(* the two square roots, their product and the quotient are each rounded.  *)
(***************************************************************************)
cosine(a, b) ==
    IF Len(a) # Len(b) THEN FZero
    ELSE IF Len(a) = 0 THEN FZero
    ELSE LET dotProduct == SumTo([j \in 1..Len(a) |-> a[j] * b[j]], Len(a))
             normA == FSqrt(SumTo([j \in 1..Len(a) |-> a[j] * a[j]], Len(a)))
             normB == FSqrt(SumTo([j \in 1..Len(a) |-> b[j] * b[j]], Len(a)))
         IN  IF normA = FZero \/ normB = FZero THEN FZero
             ELSE IF dotProduct = 0 THEN FZero
             ELSE FDiv(dotProduct, FMul(normA, normB))

\* the vectors cosine is called with
CosVecs == { <<>>, <<0>>, <<1>>, <<-1>>, <<3>>, <<0, 0>>, <<1, 0>>, <<0, 1>>,
             <<1, 1>>, <<-1, -1>>, <<1, 2>>, <<-1, -2>>, <<2, 1>>, <<3, 3>>,
             <<-3, -3>>, <<2, 3>>, <<-2, -3>>, <<1, 1, 1>>, <<1, 2, 3>> }

CosOff ==
    /\ cosA = <<>>
    /\ cosB = <<>>
    /\ cosResult = FZero
    /\ cosPc = "off"

CosStart ==
    /\ cosA \in CosVecs
    /\ cosB \in CosVecs
    /\ cosResult = FZero
    /\ cosPc = "call"

\* one call of cosine, which has no statement that raises
CosCall ==
    /\ cosPc = "call"
    /\ cosResult' = cosine(cosA, cosB)
    /\ cosPc' = "returned"
    /\ UNCHANGED <<cosA, cosB>>
    /\ UNCHANGED notCosVars

(***************************************************************************)
(* Array.prototype.sort((a, b) => b.similarity - a.similarity): a stable   *)
(* sort by descending similarity.                                          *)
(***************************************************************************)
RECURSIVE InsertDesc(_, _)
\* s is sorted; e goes after every element that is not smaller than it
InsertDesc(s, e) ==
    IF s = <<>> THEN <<e>>
    ELSE IF SimGT(e.similarity, Head(s).similarity)
         THEN <<e>> \o s
         ELSE <<Head(s)>> \o InsertDesc(Tail(s), e)

RECURSIVE SortDesc(_)
SortDesc(s) ==
    IF s = <<>> THEN <<>>
    ELSE InsertDesc(SortDesc(SubSeq(s, 1, Len(s) - 1)), s[Len(s)])

\* HeapStep with `>=` for `>` in the replacement test: a later candidate of
\* equal similarity evicts the incumbent.
HeapStepTieEvicts(heap, item, similarity, K) ==
    LET entry == [item |-> item, similarity |-> similarity]
    IN  IF Len(heap) < K
        THEN LET pushed == Append(heap, entry)
             IN  [threw |-> FALSE,
                  heap |-> IF Len(pushed) = K THEN SortDesc(pushed) ELSE pushed]
        ELSE IF Len(heap) = 0
        THEN [threw |-> TRUE, heap |-> heap]
        ELSE IF ~SimGT(heap[Len(heap)].similarity, similarity)
        THEN [threw |-> FALSE,
              heap |-> SortDesc([heap EXCEPT ![Len(heap)] = entry])]
        ELSE [threw |-> FALSE, heap |-> heap]

\* HeapStep with the capacity test off by one: the working set is treated as
\* full one element early.
HeapStepFullEarly(heap, item, similarity, K) ==
    LET entry == [item |-> item, similarity |-> similarity]
    IN  IF Len(heap) + 1 < K
        THEN LET pushed == Append(heap, entry)
             IN  [threw |-> FALSE,
                  heap |-> IF Len(pushed) = K THEN SortDesc(pushed) ELSE pushed]
        ELSE IF Len(heap) = 0
        THEN [threw |-> TRUE, heap |-> heap]
        ELSE IF SimGT(similarity, heap[Len(heap)].similarity)
        THEN [threw |-> FALSE,
              heap |-> SortDesc([heap EXCEPT ![Len(heap)] = entry])]
        ELSE [threw |-> FALSE, heap |-> heap]

(***************************************************************************)
(* One pass of the inner loop body for one item: the new working set, or   *)
(* a TypeError when topKHeap[topKHeap.length - 1] is undefined.            *)
(***************************************************************************)
HeapStep(heap, item, similarity, K) ==
    LET entry == [item |-> item, similarity |-> similarity]
    IN  IF Len(heap) < K
        THEN LET pushed == Append(heap, entry)
             IN  [threw |-> FALSE,
                  heap |-> IF Len(pushed) = K THEN SortDesc(pushed) ELSE pushed]
        ELSE IF Len(heap) = 0
        THEN [threw |-> TRUE, heap |-> heap]
        ELSE IF SimGT(similarity, heap[Len(heap)].similarity)
        THEN [threw |-> FALSE,
              heap |-> SortDesc([heap EXCEPT ![Len(heap)] = entry])]
        ELSE [threw |-> FALSE, heap |-> heap]

\* FinalSort without the sort: the working set is returned as it stands.
FinalSortSkipped(heap) == heap

\* line 142: the sort of the return statement
FinalSort(heap) == SortDesc(heap)

BATCH_SIZE == 100

(***************************************************************************)
(* rankByCosine as a state machine.                                        *)
(***************************************************************************)
Candidates ==
    UNION { [1..n -> CandVecs] : n \in 0..MaxCands }

RankOff ==
    /\ query = <<>>
    /\ vectors = <<>>
    /\ topK = 0
    /\ i = 0
    /\ k = 0
    /\ topKHeap = <<>>
    /\ rankResult = <<>>
    /\ rankPc = "off"

RankStart ==
    /\ query \in QueryVecs
    /\ \E vs \in Candidates :
          vectors = [p \in 1..Len(vs) |-> [id |-> p, vector |-> vs[p]]]
    /\ topK \in (0 - 1)..MaxTopK
    /\ i = 0
    /\ k = 0
    /\ topKHeap = <<>>
    /\ rankResult = <<>>
    /\ rankPc = "call"

\* lines 76-97: the empty-input return, otherwise enter the loop
RankEnter ==
    /\ rankPc = "call"
    /\ IF Len(vectors) = 0
       THEN /\ rankPc' = "done"
            /\ rankResult' = <<>>
       ELSE /\ rankPc' = "loop"
            /\ rankResult' = rankResult
    /\ UNCHANGED <<query, vectors, topK, i, k, topKHeap>>
    /\ UNCHANGED notRankVars

\* lines 101-139: one item of the current batch
RankItem ==
    /\ rankPc = "loop"
    /\ i < Len(vectors)
    /\ LET batchLen == Min(i + BATCH_SIZE, Len(vectors)) - i
           item == vectors[i + k + 1]
           step == HeapStep(topKHeap, item, Similarity(query, item.vector), topK)
       IN  IF step.threw
           THEN /\ rankPc' = "threw"
                /\ UNCHANGED <<i, k, topKHeap>>
           ELSE /\ topKHeap' = step.heap
                /\ rankPc' = "loop"
                /\ IF k + 1 < batchLen
                   THEN k' = k + 1 /\ i' = i
                   ELSE k' = 0 /\ i' = i + BATCH_SIZE
    /\ UNCHANGED <<query, vectors, topK, rankResult>>
    /\ UNCHANGED notRankVars

\* line 142
RankReturn ==
    /\ rankPc = "loop"
    /\ i >= Len(vectors)
    /\ rankResult' = FinalSort(topKHeap)
    /\ rankPc' = "done"
    /\ UNCHANGED <<query, vectors, topK, i, k, topKHeap>>
    /\ UNCHANGED notRankVars

RankNext == RankEnter \/ RankItem \/ RankReturn

(***************************************************************************)
(* chunkText.  A string is a sequence of one-character strings; " " stands *)
(* for whitespace.                                                         *)
(***************************************************************************)
Chars == {"a", "b", " "}
IsSpace(c) == c = " "

RECURSIVE TrimStart(_)
TrimStart(s) ==
    IF s # <<>> /\ IsSpace(Head(s)) THEN TrimStart(Tail(s)) ELSE s

RECURSIVE TrimEnd(_)
TrimEnd(s) ==
    IF s # <<>> /\ IsSpace(s[Len(s)]) THEN TrimEnd(SubSeq(s, 1, Len(s) - 1)) ELSE s

\* String.prototype.trim
Trim(s) == TrimEnd(TrimStart(s))

Clamp(n, len) == IF n < 0 THEN 0 ELSE IF n > len THEN len ELSE n

\* String.prototype.substring(a, b), 0-based, b exclusive: both ends are
\* clamped to [0, length] and swapped when a > b
Substring(s, a, b) ==
    LET ca == Clamp(a, Len(s))
        cb == Clamp(b, Len(s))
    IN  IF ca <= cb THEN SubSeq(s, ca + 1, cb) ELSE SubSeq(s, cb + 1, ca)

\* NextStart with the window moved one character too far.
NextStartSkipsOne(endIndex, ov, chs) ==
    LET s1 == endIndex - ov + 1
    IN  IF (chs # <<>> /\ s1 <= chs[Len(chs)].index) \/ s1 < 0
        THEN endIndex
        ELSE s1

\* NextStart with the overlap forgotten.
NextStartNoOverlap(endIndex, ov, chs) == endIndex

\* lines 247-252: the next window start.  `chs` is the list of fragments after
\* the current window; chs[last]?.index is undefined for an empty list and the
\* comparison with undefined is false.
NextStart(endIndex, ov, chs) ==
    LET s1 == endIndex - ov
    IN  IF (chs # <<>> /\ s1 <= chs[Len(chs)].index) \/ s1 < 0
        THEN endIndex
        ELSE s1

Texts == UNION { [1..n -> Chars] : n \in 0..MaxTextLen }

ChunkOff ==
    /\ input = <<>>
    /\ text = <<>>
    /\ chunkSize = 0
    /\ overlap = 0
    /\ startIndex = 0
    /\ chunkIndex = 0
    /\ chunks = <<>>
    /\ chunkPc = "off"

\* a long text without whitespace, chunked with the default size and overlap
\* (lines 207-208)
LongText == [n \in 1..3000 |-> "a"]

ChunkStart ==
    /\ \/ /\ input \in Texts
          /\ chunkSize \in 0..MaxSize
          /\ overlap \in 0..MaxOverlap
       \/ /\ input = LongText
          /\ chunkSize = 1500
          /\ overlap = 200
    /\ text = <<>>
    /\ startIndex = 0
    /\ chunkIndex = 0
    /\ chunks = <<>>
    /\ chunkPc = "call"

\* lines 211-219
ChunkEnter ==
    /\ chunkPc = "call"
    /\ text' = Trim(input)
    /\ chunkPc' = IF Trim(input) = <<>> THEN "done" ELSE "test"
    /\ UNCHANGED <<input, chunkSize, overlap, startIndex, chunkIndex, chunks>>
    /\ UNCHANGED notChunkVars

\* line 221: the loop condition
ChunkTest ==
    /\ chunkPc = "test"
    /\ chunkPc' = IF startIndex < Len(text) THEN "body" ELSE "done"
    /\ UNCHANGED <<input, text, chunkSize, overlap, startIndex, chunkIndex, chunks>>
    /\ UNCHANGED notChunkVars

\* ChunkBody with the index counting windows, not emitted fragments.
ChunkBodyCountsWindows ==
    /\ chunkPc = "body"
    /\ LET endIndex == Min(startIndex + chunkSize, Len(text))
           window == Trim(Substring(text, startIndex, endIndex))
           emitted == IF window # <<>>
                      THEN Append(chunks, [index |-> chunkIndex,
                                           text |-> window,
                                           tokenCount |-> Len(window)])
                      ELSE chunks
       IN  /\ chunks' = emitted
           /\ chunkIndex' = chunkIndex + 1
           /\ IF endIndex = Len(text)
              THEN /\ chunkPc' = "done"
                   /\ startIndex' = startIndex
              ELSE /\ chunkPc' = "test"
                   /\ startIndex' = NextStart(endIndex, overlap, emitted)
    /\ UNCHANGED <<input, text, chunkSize, overlap>>
    /\ UNCHANGED notChunkVars

\* lines 223-252: one window
ChunkBody ==
    /\ chunkPc = "body"
    /\ LET endIndex == Min(startIndex + chunkSize, Len(text))
           window == Trim(Substring(text, startIndex, endIndex))
           emitted == IF window # <<>>
                      THEN Append(chunks, [index |-> chunkIndex,
                                           text |-> window,
                                           tokenCount |-> Len(window)])
                      ELSE chunks
       IN  /\ chunks' = emitted
           /\ chunkIndex' = IF window # <<>> THEN chunkIndex + 1 ELSE chunkIndex
           /\ IF endIndex = Len(text)
              THEN /\ chunkPc' = "done"
                   /\ startIndex' = startIndex
              ELSE /\ chunkPc' = "test"
                   /\ startIndex' = NextStart(endIndex, overlap, emitted)
    /\ UNCHANGED <<input, text, chunkSize, overlap>>
    /\ UNCHANGED notChunkVars

ChunkNext == ChunkEnter \/ ChunkTest \/ ChunkBody

(***************************************************************************)
(* buildContext.                                                           *)
(***************************************************************************)
DigitChars == <<"0", "1", "2", "3", "4", "5", "6", "7", "8", "9">>

RECURSIVE ToDigits(_)
\* the decimal rendering of n >= 0 in a template literal
ToDigits(n) ==
    IF n < 10 THEN <<DigitChars[n + 1]>>
    ELSE ToDigits(n \div 10) \o <<DigitChars[(n % 10) + 1]>>

\* line 37: `Source: ${filename}#${chunkIndex}\n${text}\n---\n`
RenderChunk(chunk) ==
    <<"S", "o", "u", "r", "c", "e", ":", " ">> \o chunk.filename \o <<"#">>
        \o ToDigits(chunk.chunkIndex) \o <<"\n">> \o chunk.text
        \o <<"\n", "-", "-", "-", "\n">>

\* line 49: `${filename}#${chunkIndex}`
SourceKey(s) == s.filename \o <<"#">> \o ToDigits(s.chunkIndex)

RECURSIVE Join(_)
\* contextParts.join('')
Join(parts) == IF parts = <<>> THEN <<>> ELSE Head(parts) \o Join(Tail(parts))

\* CtxStep with the budget test on the fragment alone, the running total
\* forgotten.
CtxStepIgnoresTotal(st, chunk, budget) ==
    LET rendered == RenderChunk(chunk)
    IN  IF Len(rendered) > budget /\ st.currentLength > 0
        THEN [st EXCEPT !.stop = TRUE]
        ELSE [stop |-> FALSE,
              contextParts |-> Append(st.contextParts, rendered),
              currentLength |-> st.currentLength + Len(rendered),
              sources |->
                  IF \E n \in 1..Len(st.sources) :
                        SourceKey(st.sources[n]) = SourceKey(chunk)
                  THEN st.sources
                  ELSE Append(st.sources, [filename |-> chunk.filename,
                                           chunkIndex |-> chunk.chunkIndex])]

\* CtxStep that passes over a fragment that does not fit and goes on.
CtxStepSkips(st, chunk, budget) ==
    LET rendered == RenderChunk(chunk)
    IN  IF st.currentLength + Len(rendered) > budget /\ st.currentLength > 0
        THEN st
        ELSE [stop |-> FALSE,
              contextParts |-> Append(st.contextParts, rendered),
              currentLength |-> st.currentLength + Len(rendered),
              sources |->
                  IF \E n \in 1..Len(st.sources) :
                        SourceKey(st.sources[n]) = SourceKey(chunk)
                  THEN st.sources
                  ELSE Append(st.sources, [filename |-> chunk.filename,
                                           chunkIndex |-> chunk.chunkIndex])]

\* CtxStep that records a source for every fragment it includes.
CtxStepNoDedupe(st, chunk, budget) ==
    LET rendered == RenderChunk(chunk)
    IN  IF st.currentLength + Len(rendered) > budget /\ st.currentLength > 0
        THEN [st EXCEPT !.stop = TRUE]
        ELSE [stop |-> FALSE,
              contextParts |-> Append(st.contextParts, rendered),
              currentLength |-> st.currentLength + Len(rendered),
              sources |-> Append(st.sources, [filename |-> chunk.filename,
                                              chunkIndex |-> chunk.chunkIndex])]

\* lines 35-56: the loop body for one fragment; stop is the `break`
CtxStep(st, chunk, budget) ==
    LET rendered == RenderChunk(chunk)
    IN  IF st.currentLength + Len(rendered) > budget /\ st.currentLength > 0
        THEN [st EXCEPT !.stop = TRUE]
        ELSE [stop |-> FALSE,
              contextParts |-> Append(st.contextParts, rendered),
              currentLength |-> st.currentLength + Len(rendered),
              sources |->
                  IF \E n \in 1..Len(st.sources) :
                        SourceKey(st.sources[n]) = SourceKey(chunk)
                  THEN st.sources
                  ELSE Append(st.sources, [filename |-> chunk.filename,
                                           chunkIndex |-> chunk.chunkIndex])]

CtxEmpty == [stop |-> FALSE, contextParts |-> <<>>, currentLength |-> 0,
             sources |-> <<>>]

\* lines 58-61
CtxReturn(st) == [context |-> Join(st.contextParts), sources |-> st.sources]

\* fragments to assemble: two that share (filename, chunkIndex), a two-digit
\* index, texts and filenames of different lengths, and a filename that
\* holds the separator of the source key
ChunkSources ==
    { [filename |-> <<"a">>, chunkIndex |-> 0, text |-> <<"x">>],
      [filename |-> <<"a">>, chunkIndex |-> 0, text |-> <<"y", "y", "y">>],
      [filename |-> <<"b", "b">>, chunkIndex |-> 10, text |-> <<"x">>],
      [filename |-> <<"a">>, chunkIndex |-> 1, text |-> <<"z", "z">>],
      [filename |-> <<"a", "#", "1">>, chunkIndex |-> 0, text |-> <<"x">>] }

ChosenLists == UNION { [1..n -> ChunkSources] : n \in 0..MaxChosen }

CtxOff ==
    /\ chosen = <<>>
    /\ maxChars = 0
    /\ ci = 0
    /\ contextParts = <<>>
    /\ sources = <<>>
    /\ currentLength = 0
    /\ ctxResult = [context |-> <<>>, sources |-> <<>>]
    /\ ctxPc = "off"

CtxStart ==
    /\ chosen \in ChosenLists
    /\ maxChars \in 0..MaxChars
    /\ ci = 0
    /\ contextParts = <<>>
    /\ sources = <<>>
    /\ currentLength = 0
    /\ ctxResult = [context |-> <<>>, sources |-> <<>>]
    /\ ctxPc = "call"

\* lines 27-33
CtxEnter ==
    /\ ctxPc = "call"
    /\ ctxPc' = IF Len(chosen) = 0 THEN "done" ELSE "loop"
    /\ UNCHANGED <<chosen, maxChars, ci, contextParts, sources, currentLength,
                   ctxResult>>
    /\ UNCHANGED notCtxVars

\* lines 35-56: one fragment
CtxChunk ==
    /\ ctxPc = "loop"
    /\ ci < Len(chosen)
    /\ LET st == CtxStep([stop |-> FALSE, contextParts |-> contextParts,
                          currentLength |-> currentLength, sources |-> sources],
                         chosen[ci + 1], maxChars)
       IN  /\ contextParts' = st.contextParts
           /\ currentLength' = st.currentLength
           /\ sources' = st.sources
           /\ IF st.stop
              THEN /\ ctxPc' = "done"
                   /\ ci' = ci
                   /\ ctxResult' = CtxReturn(st)
              ELSE /\ ctxPc' = "loop"
                   /\ ci' = ci + 1
                   /\ ctxResult' = ctxResult
    /\ UNCHANGED <<chosen, maxChars>>
    /\ UNCHANGED notCtxVars

\* lines 58-61, after the last fragment
CtxDone ==
    /\ ctxPc = "loop"
    /\ ci = Len(chosen)
    /\ ctxPc' = "done"
    /\ ctxResult' = CtxReturn([contextParts |-> contextParts, sources |-> sources])
    /\ UNCHANGED <<chosen, maxChars, ci, contextParts, sources, currentLength>>
    /\ UNCHANGED notCtxVars

CtxNext == CtxEnter \/ CtxChunk \/ CtxDone

(***************************************************************************)
(* The query routes.  POST /api/query and POST /api/query-stream share the *)
(* retrieval steps; they differ after ranking.  The store's reads succeed; *)
(* the prefilter query, the embedder, the generator and the writes of the  *)
(* persist step may fail.                                                  *)
(***************************************************************************)
\* configuration read from the environment, set small
TOP_K == 2
MAX_CONTEXT_CHARS == 30
MAX_EMBEDDINGS_SEARCH == 2
PREFILTER_LIMIT == 2

Docs == {1, 2}
ConvIds == {1, 2}

RECURSIVE SeqOfSet(_)
\* the elements of a finite set of numbers in ascending order
SeqOfSet(S) ==
    IF S = {} THEN <<>>
    ELSE LET m == CHOOSE x \in S : \A y \in S : x <= y
         IN  <<m>> \o SeqOfSet(S \ {m})

RECURSIVE RankFold(_, _, _, _)
RankFold(q, rows, K, heap) ==
    IF rows = <<>> THEN [threw |-> FALSE, heap |-> heap]
    ELSE LET st == HeapStep(heap, Head(rows),
                            Similarity(q, Head(rows).vector), K)
         IN  IF st.threw THEN st ELSE RankFold(q, Tail(rows), K, st.heap)

\* rankByCosine as a function: the items in result order, or the TypeError
RankByCosine(q, rows, K) ==
    IF Len(rows) = 0 THEN [threw |-> FALSE, out |-> <<>>]
    ELSE LET r == RankFold(q, rows, K, <<>>)
         IN  IF r.threw THEN [threw |-> TRUE, out |-> <<>>]
             ELSE LET sorted == FinalSort(r.heap)
                  IN  [threw |-> FALSE,
                       out |-> [n \in 1..Len(sorted) |-> sorted[n].item]]

RECURSIVE CtxFold(_, _, _)
CtxFold(st, rest, budget) ==
    IF rest = <<>> THEN st
    ELSE LET n == CtxStep(st, Head(rest), budget)
         IN  IF n.stop THEN n ELSE CtxFold(n, Tail(rest), budget)

\* buildContext as a function
BuildContext(list, budget) ==
    IF Len(list) = 0 THEN [context |-> <<>>, sources |-> <<>>]
    ELSE CtxReturn(CtxFold(CtxEmpty, list, budget))

\* lib/rag.ts buildPrompt(question, context); the fixed wording of each
\* section is one token
BuildPrompt(q, context) ==
    <<"INSTRUCTIONS", "CONTEXT:">> \o context \o <<"QUESTION:">> \o q
        \o <<"ANSWER:">>

\* where: { chunk: { document: { conversationId } } }
InScopeChunk(chunkId, conv) ==
    /\ chunkId \in DOMAIN chunkRows
    /\ documents[chunkRows[chunkId].documentId].conversationId = conv

\* ChunkFilter without the fall-back branch: `id: { in: candidateChunkIds }`
\* whatever the list holds.
ChunkFilterNoFallback(ids, chunkId) ==
    \E n \in 1..Len(ids) : ids[n] = chunkId

\* candidateChunkIds.length > 0 ? { id: { in: candidateChunkIds } } : {}
ChunkFilter(ids, chunkId) ==
    IF Len(ids) > 0 THEN \E n \in 1..Len(ids) : ids[n] = chunkId ELSE TRUE

\* FindManyWhere without the conversation condition.
FindManyWhereUnscoped(e, ids, conv) ==
    ChunkFilter(ids, e.chunkId)

\* the where clause of prisma.embedding.findMany
FindManyWhere(e, ids, conv) ==
    /\ ChunkFilter(ids, e.chunkId)
    /\ InScopeChunk(e.chunkId, conv)

Matching(ids, conv) ==
    {n \in 1..Len(embeddingRows) : FindManyWhere(embeddingRows[n], ids, conv)}

\* take: MAX_EMBEDDINGS_SEARCH without orderBy: any MAX_EMBEDDINGS_SEARCH of
\* the matching rows, all of them when there are no more than that
FindManyResults(ids, conv) ==
    LET all == Matching(ids, conv)
        n == Min(MAX_EMBEDDINGS_SEARCH, Cardinality(all))
    IN  { [p \in 1..n |-> embeddingRows[SeqOfSet(T)[p]]] :
              T \in {X \in SUBSET all : Cardinality(X) = n} }

\* Array.isArray(vec) && vec.length > 0
UsableVector(vec) == Len(vec) > 0

UsableEmbedding(e) == UsableVector(e.vector)

ToVectorRow(e) ==
    [id |-> e.chunkId,
     vector |-> e.vector,
     docId |-> chunkRows[e.chunkId].documentId,
     chunkIndex |-> chunkRows[e.chunkId].chunkIndex,
     filename |-> documents[chunkRows[e.chunkId].documentId].filename,
     text |-> chunkRows[e.chunkId].text]

\* embeddings.filter(...).map(...)
VectorRowsOf(embs) ==
    LET kept == SelectSeq(embs, UsableEmbedding)
    IN  [n \in 1..Len(kept) |-> ToVectorRow(kept[n])]

ToChunkSource(c) ==
    [filename |-> c.filename, chunkIndex |-> c.chunkIndex, text |-> c.text]

\* sources.map(s => chosen.find(...)): the first chosen row of that
\* filename and chunkIndex, 0 when there is none
WithDocId(srcs, rows) ==
    [n \in 1..Len(srcs) |->
        LET hits == {m \in 1..Len(rows) :
                        /\ rows[m].filename = srcs[n].filename
                        /\ rows[m].chunkIndex = srcs[n].chunkIndex}
            first == CHOOSE m \in hits : \A o \in hits : m <= o
        IN  [documentId |-> IF hits = {} THEN 0 ELSE rows[first].docId,
             chunkId |-> IF hits = {} THEN 0 ELSE rows[first].id,
             filename |-> srcs[n].filename,
             chunkIndex |-> srcs[n].chunkIndex]]

\* the rows of a conversation's documents that are stored: what a read
\* scoped to the conversation ranges over
ScopeView(conv) ==
    [during |-> dPc,
     chunks |-> {c \in DOMAIN chunkRows : InScopeChunk(c, conv)},
     embeddings |->
        {embeddingRows[n].id :
            n \in {o \in 1..Len(embeddingRows) :
                      InScopeChunk(embeddingRows[o].chunkId, conv)}}]

\* the ids the FTS5 query can return: chunks of the conversation's
\* documents, at most PREFILTER_LIMIT of them
FtsResults(conv) ==
    {SeqOfSet(S) :
        S \in {X \in SUBSET {c \in DOMAIN chunkRows : InScopeChunk(c, conv)} :
                  Cardinality(X) <= PREFILTER_LIMIT}}

\* NextResponse.json({ error }, { status })
Json(status, err) ==
    [status |-> status, kind |-> "error", error |-> err, answer |-> <<>>,
     sources |-> <<>>]
NoResponse ==
    [status |-> 0, kind |-> "none", error |-> "", answer |-> <<>>,
     sources |-> <<>>]

Event(type, data) == [type |-> type, data |-> data]

(***************************************************************************)
(* The stored corpus: MaxChunks chunks over two documents, document 1 in   *)
(* conversation 1, each chunk with no embedding, an embedding with an      *)
(* empty vector or one with a usable vector.                               *)
(***************************************************************************)
StoredEmbeddings ==
    { [has |-> FALSE, vector |-> <<>>],
      [has |-> TRUE, vector |-> <<>>],
      [has |-> TRUE, vector |-> <<1, 0>>] }

ChunkRowsOf(docOf) ==
    [c \in 1..MaxChunks |->
        [documentId |-> docOf[c],
         chunkIndex |-> Cardinality({b \in 1..(c - 1) : docOf[b] = docOf[c]}),
         text |-> <<"t">>]]

EmbeddingRowsOf(embOf) ==
    LET have == SeqOfSet({c \in 1..MaxChunks : embOf[c].has})
    IN  [n \in 1..Len(have) |->
            [id |-> have[n], chunkId |-> have[n],
             vector |-> embOf[have[n]].vector]]

StoreStart ==
    /\ conversations = ConvIds
    /\ \E conv2 \in ConvIds, name2 \in {<<"a">>, <<"b">>} :
          documents = [d \in Docs |->
              IF d = 1 THEN [conversationId |-> 1, filename |-> <<"a">>]
              ELSE [conversationId |-> conv2, filename |-> name2]]
    /\ \E docOf \in [1..MaxChunks -> Docs] : chunkRows = ChunkRowsOf(docOf)
    /\ \E embOf \in [1..MaxChunks -> StoredEmbeddings] :
          embeddingRows = EmbeddingRowsOf(embOf)
    /\ messages = <<>>
    /\ messageSources = <<>>

StoreOff ==
    /\ conversations = {}
    /\ documents = <<>>
    /\ chunkRows = <<>>
    /\ embeddingRows = <<>>
    /\ messages = <<>>
    /\ messageSources = <<>>

ReqIdle ==
    /\ queryVector = <<>>
    /\ ftsFailed = FALSE
    /\ candidateChunkIds = <<>>
    /\ embeddings = <<>>
    /\ vectorRows = <<>>
    /\ chosenRows = <<>>
    /\ built = [context |-> <<>>, sources |-> <<>>]
    /\ prompt = <<>>
    /\ sourcesWithDocId = <<>>
    /\ fullAnswer = <<>>
    /\ genThrew = FALSE
    /\ events = <<>>
    /\ response = NoResponse
    /\ aborted = FALSE
    /\ abortAt = 0 - 1
    /\ writes = 0 - 1
    /\ readViews = <<>>

ReqOff ==
    /\ route = "none"
    /\ question = <<>>
    /\ conversationId = 0
    /\ qPc = "off"
    /\ ReqIdle

\* the request body: a question (possibly blank) and a conversation id
\* (0: missing, 3: no such conversation)
ReqStart ==
    /\ route \in {"query", "stream"}
    /\ question \in {<<"q">>, <<" ">>}
    /\ conversationId \in 0..3
    /\ qPc = "start"
    /\ ReqIdle

\* lines 28-57: body validation and the conversation lookup
QValidate ==
    /\ qPc = "start"
    /\ IF Trim(question) = <<>>
       THEN response' = Json(400, "question_required") /\ qPc' = "done"
       ELSE IF conversationId = 0
       THEN response' = Json(400, "no_conversation_id") /\ qPc' = "done"
       ELSE IF conversationId \notin conversations
       THEN response' = Json(404, "conversation_not_found") /\ qPc' = "done"
       ELSE response' = response /\ qPc' = "embed"
    /\ UNCHANGED <<route, question, conversationId, queryVector, ftsFailed,
                   candidateChunkIds, embeddings, vectorRows, chosenRows, built,
                   prompt, sourcesWithDocId, fullAnswer, genThrew, events>>
    /\ UNCHANGED <<cancelVars, writes, readViews>>
    /\ UNCHANGED <<storeVars, notQueryVars>>

EmbedOutcomes ==
    { [threw |-> TRUE, vectors |-> <<>>],
      [threw |-> FALSE, vectors |-> <<>>],
      [threw |-> FALSE, vectors |-> << <<>> >>],
      [threw |-> FALSE, vectors |-> << <<1, 0>> >>] }

\* QEmbed that goes on without a query vector when the embedder gives none.
QEmbedFallsThrough ==
    /\ qPc = "embed"
    /\ \E out \in EmbedOutcomes :
          IF out.threw
          THEN /\ response' = Json(500, "embedder")
               /\ qPc' = "done"
               /\ queryVector' = queryVector
          ELSE /\ response' = response
               /\ qPc' = "prefilter"
               /\ queryVector' = IF Len(out.vectors) = 0 THEN <<>>
                                 ELSE out.vectors[1]
    /\ UNCHANGED <<route, question, conversationId, ftsFailed,
                   candidateChunkIds, embeddings, vectorRows, chosenRows, built,
                   prompt, sourcesWithDocId, fullAnswer, genThrew, events>>
    /\ UNCHANGED <<cancelVars, writes, readViews>>
    /\ UNCHANGED <<storeVars, notQueryVars>>

\* lines 59-67: the question's embedding
QEmbed ==
    /\ qPc = "embed"
    /\ \E out \in EmbedOutcomes :
          IF out.threw
          THEN /\ response' = Json(500, "embedder")
               /\ qPc' = "done"
               /\ queryVector' = queryVector
          ELSE IF Len(out.vectors) = 0 \/ Len(out.vectors[1]) = 0
          THEN /\ response' = Json(500, "embedding_failed")
               /\ qPc' = "done"
               /\ queryVector' = queryVector
          ELSE /\ response' = response
               /\ qPc' = "prefilter"
               /\ queryVector' = out.vectors[1]
    /\ UNCHANGED <<route, question, conversationId, ftsFailed,
                   candidateChunkIds, embeddings, vectorRows, chosenRows, built,
                   prompt, sourcesWithDocId, fullAnswer, genThrew, events>>
    /\ UNCHANGED <<cancelVars, writes, readViews>>
    /\ UNCHANGED <<storeVars, notQueryVars>>

\* QPrefilter without the try/catch: the error of the FTS5 query reaches the
\* handler's outer catch.
QPrefilterUncaught ==
    /\ qPc = "prefilter"
    /\ \E out \in {[failed |-> TRUE, ids |-> <<>>]}
                  \cup {[failed |-> FALSE, ids |-> r] :
                           r \in FtsResults(conversationId)} :
          /\ ftsFailed' = out.failed
          /\ candidateChunkIds' = out.ids
          /\ readViews' = IF out.failed THEN readViews
                          ELSE Append(readViews, ScopeView(conversationId))
          /\ IF out.failed
             THEN response' = Json(500, "prefilter") /\ qPc' = "done"
             ELSE response' = response /\ qPc' = "fetch"
    /\ UNCHANGED <<route, question, conversationId, queryVector, embeddings,
                   vectorRows, chosenRows, built, prompt, sourcesWithDocId,
                   fullAnswer, genThrew, events>>
    /\ UNCHANGED <<cancelVars, writes>>
    /\ UNCHANGED <<storeVars, notQueryVars>>

\* lines 69-94: the FTS5 prefilter; an error leaves candidateChunkIds empty
QPrefilter ==
    /\ qPc = "prefilter"
    /\ \E out \in {[failed |-> TRUE, ids |-> <<>>]}
                  \cup {[failed |-> FALSE, ids |-> r] :
                           r \in FtsResults(conversationId)} :
          /\ ftsFailed' = out.failed
          /\ candidateChunkIds' = out.ids
          /\ readViews' = IF out.failed THEN readViews
                          ELSE Append(readViews, ScopeView(conversationId))
    /\ qPc' = "fetch"
    /\ UNCHANGED <<route, question, conversationId, queryVector, embeddings,
                   vectorRows, chosenRows, built, prompt, sourcesWithDocId,
                   fullAnswer, genThrew, events, response>>
    /\ UNCHANGED <<cancelVars, writes>>
    /\ UNCHANGED <<storeVars, notQueryVars>>

\* what follows findMany up to the next awaited call, for the rows `embs`:
\* query lines 124-170, query-stream lines 125-193
AfterFetch(embs) ==
    LET rows == VectorRowsOf(embs)
        ranked == RankByCosine(queryVector, rows, TOP_K)
        b == BuildContext([n \in 1..Len(ranked.out) |->
                              ToChunkSource(ranked.out[n])],
                          MAX_CONTEXT_CHARS)
        same == [vectorRows |-> vectorRows, chosenRows |-> chosenRows,
                 built |-> built, prompt |-> prompt,
                 sourcesWithDocId |-> sourcesWithDocId, events |-> events,
                 response |-> response, qPc |-> qPc]
    IN  IF Len(embs) = 0
        THEN [same EXCEPT !.response = Json(422, "no_embedded_content"),
                          !.qPc = "done"]
        ELSE IF ranked.threw
        THEN [same EXCEPT !.vectorRows = rows,
                          !.response = Json(500, "TypeError"),
                          !.qPc = "done"]
        ELSE IF route = "query"
        THEN IF Len(b.context) = 0
             THEN [same EXCEPT !.vectorRows = rows, !.chosenRows = ranked.out,
                               !.built = b,
                               !.response = Json(422, "no_context"),
                               !.qPc = "done"]
             ELSE [same EXCEPT !.vectorRows = rows, !.chosenRows = ranked.out,
                               !.built = b,
                               !.prompt = BuildPrompt(question, b.context),
                               !.qPc = "generate"]
        ELSE [same EXCEPT !.vectorRows = rows, !.chosenRows = ranked.out,
                          !.built = b,
                          !.prompt = BuildPrompt(b.context, question),
                          !.sourcesWithDocId = WithDocId(b.sources, ranked.out),
                          !.events = <<Event("sources",
                                             WithDocId(b.sources, ranked.out))>>,
                          !.response = [status |-> 200, kind |-> "stream",
                                        error |-> "", answer |-> <<>>,
                                        sources |-> <<>>],
                          !.qPc = "generate"]

\* query lines 96-170, query-stream lines 97-193: findMany, rank, assemble
QFetch ==
    /\ qPc = "fetch"
    /\ \E embs \in FindManyResults(candidateChunkIds, conversationId) :
          LET nx == AfterFetch(embs)
          IN  /\ embeddings' = embs
              /\ readViews' = Append(readViews, ScopeView(conversationId))
              /\ vectorRows' = nx.vectorRows
              /\ chosenRows' = nx.chosenRows
              /\ built' = nx.built
              /\ prompt' = nx.prompt
              /\ sourcesWithDocId' = nx.sourcesWithDocId
              /\ events' = nx.events
              /\ response' = nx.response
              /\ qPc' = nx.qPc
    /\ UNCHANGED <<route, question, conversationId, queryVector, ftsFailed,
                   candidateChunkIds, fullAnswer, genThrew>>
    /\ UNCHANGED <<cancelVars, writes>>
    /\ UNCHANGED <<storeVars, notQueryVars>>

Answers == {<<"A">>, <<"A", " ">>}

\* the status the query route gives each generator error
GenErrorStatus == [connect |-> 503, model |-> 404, other |-> 500]

\* query lines 172-220: generateWithOllama raced against the timeout
QGenerate ==
    /\ qPc = "generate"
    /\ route = "query"
    /\ \/ \E a \in Answers :
             /\ fullAnswer' = a
             /\ sourcesWithDocId' = WithDocId(built.sources, chosenRows)
             /\ qPc' = "persist"
             /\ UNCHANGED <<genThrew, response>>
       \/ \E kind \in DOMAIN GenErrorStatus :
             /\ genThrew' = TRUE
             /\ response' = Json(GenErrorStatus[kind], "generator")
             /\ qPc' = "done"
             /\ UNCHANGED <<fullAnswer, sourcesWithDocId>>
    /\ UNCHANGED <<route, question, conversationId, queryVector, ftsFailed,
                   candidateChunkIds, embeddings, vectorRows, chosenRows, built,
                   prompt, events>>
    /\ UNCHANGED <<cancelVars, writes, readViews>>
    /\ UNCHANGED <<storeVars, notQueryVars>>

DeltasSent == Cardinality({n \in 1..Len(events) : events[n].type = "delta"})

\* query-stream lines 196-206: one chunk of the generator
QStreamDelta ==
    /\ qPc = "generate"
    /\ route = "stream"
    /\ abortAt < 0
    /\ DeltasSent < MaxDeltas
    /\ fullAnswer' = fullAnswer \o <<"d">>
    /\ events' = Append(events, Event("delta", <<"d">>))
    /\ UNCHANGED <<route, question, conversationId, qPc, queryVector, ftsFailed,
                   candidateChunkIds, embeddings, vectorRows, chosenRows, built,
                   prompt, sourcesWithDocId, genThrew, response>>
    /\ UNCHANGED <<cancelVars, writes, readViews>>
    /\ UNCHANGED <<storeVars, notQueryVars>>

\* part_001 lines 186-192: the model reports done and the generator returns
QStreamEnd ==
    /\ qPc = "generate"
    /\ route = "stream"
    /\ abortAt < 0
    /\ qPc' = "persist"
    /\ UNCHANGED <<route, question, conversationId, queryVector, ftsFailed,
                   candidateChunkIds, embeddings, vectorRows, chosenRows, built,
                   prompt, sourcesWithDocId, fullAnswer, genThrew, events,
                   response>>
    /\ UNCHANGED <<cancelVars, writes, readViews>>
    /\ UNCHANGED <<storeVars, notQueryVars>>

\* request.signal fires while the generator runs (the caller went away)
QCancel ==
    /\ qPc = "generate"
    /\ route = "stream"
    /\ ~aborted
    /\ aborted' = TRUE
    /\ UNCHANGED <<route, question, conversationId, qPc, queryVector, ftsFailed,
                   candidateChunkIds, embeddings, vectorRows, chosenRows, built,
                   prompt, sourcesWithDocId, fullAnswer, genThrew, events,
                   response, abortAt, writes, readViews>>
    /\ UNCHANGED <<storeVars, notQueryVars>>

\* QStreamAbort with the AbortError thrown on to the route, which reports it
\* as any other error of the generator.
QStreamAbortRethrown ==
    /\ qPc = "generate"
    /\ route = "stream"
    /\ aborted
    /\ abortAt < 0
    /\ abortAt' = Len(events)
    /\ genThrew' = TRUE
    /\ events' = Append(events, Event("error", <<>>))
    /\ qPc' = "done"
    /\ UNCHANGED <<route, question, conversationId, queryVector, ftsFailed,
                   candidateChunkIds, embeddings, vectorRows, chosenRows, built,
                   prompt, sourcesWithDocId, fullAnswer, response, aborted,
                   writes, readViews>>
    /\ UNCHANGED <<storeVars, notQueryVars>>

\* part_001 lines 205-210: the pending fetch or read rejects with an
\* AbortError; the generator catches it and returns, and the route's
\* `for await` ends as it does after the last chunk
QStreamAbort ==
    /\ qPc = "generate"
    /\ route = "stream"
    /\ aborted
    /\ abortAt < 0
    /\ abortAt' = Len(events)
    /\ qPc' = "persist"
    /\ UNCHANGED <<route, question, conversationId, queryVector, ftsFailed,
                   candidateChunkIds, embeddings, vectorRows, chosenRows, built,
                   prompt, sourcesWithDocId, fullAnswer, genThrew, events,
                   response, aborted, writes, readViews>>
    /\ UNCHANGED <<storeVars, notQueryVars>>

\* QStreamThrow that reports the error and carries on to the persist step.
QStreamThrowCarriesOn ==
    /\ qPc = "generate"
    /\ route = "stream"
    /\ ~aborted
    /\ genThrew' = TRUE
    /\ events' = Append(events, Event("error", <<>>))
    /\ qPc' = "persist"
    /\ UNCHANGED <<route, question, conversationId, queryVector, ftsFailed,
                   candidateChunkIds, embeddings, vectorRows, chosenRows, built,
                   prompt, sourcesWithDocId, fullAnswer, response>>
    /\ UNCHANGED <<cancelVars, writes, readViews>>
    /\ UNCHANGED <<storeVars, notQueryVars>>

\* query-stream lines 265-279: the generator throws
QStreamThrow ==
    /\ qPc = "generate"
    /\ route = "stream"
    /\ ~aborted
    /\ genThrew' = TRUE
    /\ events' = Append(events, Event("error", <<>>))
    /\ qPc' = "done"
    /\ UNCHANGED <<route, question, conversationId, queryVector, ftsFailed,
                   candidateChunkIds, embeddings, vectorRows, chosenRows, built,
                   prompt, sourcesWithDocId, fullAnswer, response>>
    /\ UNCHANGED <<cancelVars, writes, readViews>>
    /\ UNCHANGED <<storeVars, notQueryVars>>

\* the content stored for the assistant: answer.trim() in the query route,
\* fullAnswer as it is in the streaming route
StoredAnswer == IF route = "query" THEN Trim(fullAnswer) ELSE fullAnswer

\* the writes of the persist step that succeed before the first failure:
\* `writes` of user message, assistant message, all message sources, the
\* conversation's updatedAt; when the sources fail, `saved` are those
\* Promise.all had created
\* A Message row needs its Conversation row (Message_conversationId_fkey):
\* once the conversation is deleted the first write fails.
PersistOutcomes ==
    LET all == 1..Len(sourcesWithDocId)
    IN  IF conversationId \notin conversations
        THEN {[writes |-> 0, saved |-> {}]}
        ELSE {[writes |-> w, saved |-> {}] : w \in 0..1}
             \cup {[writes |-> 2, saved |-> S] : S \in (SUBSET all) \ {all}}
             \cup {[writes |-> w, saved |-> all] : w \in 3..4}

\* QPersist with the error of a failed write reaching the handler's catch:
\* 500 in the query route, an 'error' event in the streaming route.
QPersistErrorReported ==
    /\ qPc = "persist"
    /\ \E out \in PersistOutcomes :
          LET user == [conversationId |-> conversationId, role |-> "user",
                       content |-> question]
              assistant == [conversationId |-> conversationId,
                            role |-> "assistant", content |-> StoredAnswer]
              kept == SeqOfSet(out.saved)
          IN  /\ writes' = out.writes
              /\ IF out.writes < 4
                 THEN IF route = "query"
                      THEN /\ response' = Json(500, "persist")
                           /\ events' = events
                      ELSE /\ response' = response
                           /\ events' = Append(events, Event("error", <<>>))
                 ELSE IF route = "query"
                      THEN /\ response' =
                                [status |-> 200, kind |-> "answer",
                                 error |-> "", answer |-> Trim(fullAnswer),
                                 sources |-> sourcesWithDocId]
                           /\ events' = events
                      ELSE /\ response' = response
                           /\ events' = Append(events,
                                               Event("done", fullAnswer))
              /\ messages' =
                    IF out.writes = 0 THEN messages
                    ELSE IF out.writes = 1 THEN Append(messages, user)
                    ELSE messages \o <<user, assistant>>
              /\ messageSources' = messageSources \o
                    [n \in 1..Len(kept) |->
                        [messageId |-> Len(messages) + 2,
                         documentId |-> sourcesWithDocId[kept[n]].documentId,
                         chunkId |-> sourcesWithDocId[kept[n]].chunkId,
                         filename |-> sourcesWithDocId[kept[n]].filename,
                         chunkIndex |-> sourcesWithDocId[kept[n]].chunkIndex]]
    /\ qPc' = "done"
    /\ UNCHANGED <<route, question, conversationId, queryVector, ftsFailed,
                   candidateChunkIds, embeddings, vectorRows, chosenRows, built,
                   prompt, sourcesWithDocId, fullAnswer, genThrew, cancelVars,
                   readViews>>
    /\ UNCHANGED <<conversations, documents, chunkRows, embeddingRows>>
    /\ UNCHANGED notQueryVars

\* query lines 222-278, query-stream lines 208-264: persist, then answer;
\* a failed write is logged and the answer is returned all the same
QPersist ==
    /\ qPc = "persist"
    /\ \E out \in PersistOutcomes :
          LET user == [conversationId |-> conversationId, role |-> "user",
                       content |-> question]
              assistant == [conversationId |-> conversationId,
                            role |-> "assistant", content |-> StoredAnswer]
              kept == SeqOfSet(out.saved)
          IN  /\ writes' = out.writes
              /\ messages' =
                    IF out.writes = 0 THEN messages
                    ELSE IF out.writes = 1 THEN Append(messages, user)
                    ELSE messages \o <<user, assistant>>
              /\ messageSources' = messageSources \o
                    [n \in 1..Len(kept) |->
                        [messageId |-> Len(messages) + 2,
                         documentId |-> sourcesWithDocId[kept[n]].documentId,
                         chunkId |-> sourcesWithDocId[kept[n]].chunkId,
                         filename |-> sourcesWithDocId[kept[n]].filename,
                         chunkIndex |-> sourcesWithDocId[kept[n]].chunkIndex]]
    /\ IF route = "query"
       THEN /\ response' = [status |-> 200, kind |-> "answer", error |-> "",
                            answer |-> Trim(fullAnswer),
                            sources |-> sourcesWithDocId]
            /\ events' = events
       ELSE /\ response' = response
            /\ events' = Append(events, Event("done", fullAnswer))
    /\ qPc' = "done"
    /\ UNCHANGED <<route, question, conversationId, queryVector, ftsFailed,
                   candidateChunkIds, embeddings, vectorRows, chosenRows, built,
                   prompt, sourcesWithDocId, fullAnswer, genThrew, cancelVars,
                   readViews>>
    /\ UNCHANGED <<conversations, documents, chunkRows, embeddingRows>>
    /\ UNCHANGED notQueryVars

QueryNext ==
    \/ QValidate
    \/ QEmbed
    \/ QPrefilter
    \/ QFetch
    \/ QGenerate
    \/ QStreamDelta
    \/ QStreamEnd
    \/ QCancel
    \/ QStreamAbort
    \/ QStreamThrow
    \/ QPersist

(***************************************************************************)
(* DELETE /api/conversations/[id], one step per awaited call.  Each prisma *)
(* call is one SQL statement and takes effect as a whole or not at all.    *)
(***************************************************************************)
DeleteResponse(status, deleted) == [status |-> status, deleted |-> deleted]

DelOff ==
    /\ dConv = 0
    /\ dPc = "off"
    /\ documentIds = {}
    /\ docsRemoved = 0
    /\ dResponse = DeleteResponse(0, FALSE)

\* the id of the path: 0 is not a number, 3 no conversation
DelStart ==
    /\ dConv \in 0..3
    /\ dPc = "start"
    /\ documentIds = {}
    /\ docsRemoved = 0
    /\ dResponse = DeleteResponse(0, FALSE)

\* the Embedding rows left when the chunks `gone` are deleted
\* (Embedding_chunkId_fkey, ON DELETE CASCADE)
EmbeddingsWithout(gone) ==
    LET Kept(e) == e.chunkId \notin gone
    IN  SelectSeq(embeddingRows, Kept)

\* the Chunk rows of the documents `docs`
ChunksOfDocs(docs) == {c \in DOMAIN chunkRows : chunkRows[c].documentId \in docs}

\* lines 75-93: parse the id, find the conversation's documents
DFind ==
    /\ dPc = "start"
    /\ IF dConv = 0
       THEN /\ dResponse' = DeleteResponse(400, FALSE)
            /\ dPc' = "done"
            /\ documentIds' = documentIds
       ELSE /\ documentIds' = {d \in DOMAIN documents :
                                  documents[d].conversationId = dConv}
            /\ dPc' = "conversation"
            /\ dResponse' = dResponse
    /\ UNCHANGED <<dConv, docsRemoved>>
    /\ UNCHANGED <<storeVars, histVars, notDeleteVars>>

\* DConversation with the documents left in the conversation's scope.
DConversationKeepsScope ==
    /\ dPc = "conversation"
    /\ IF dConv \notin conversations
       THEN /\ dResponse' = DeleteResponse(404, FALSE)
            /\ dPc' = "done"
            /\ UNCHANGED <<conversations, documents, messages, messageSources>>
       ELSE /\ conversations' = conversations \ {dConv}
            /\ documents' = documents
            /\ LET KeptSource(ms) ==
                       messages[ms.messageId].conversationId # dConv
                   KeptMessage(m) == m.conversationId # dConv
               IN  /\ messageSources' = SelectSeq(messageSources, KeptSource)
                   /\ messages' = SelectSeq(messages, KeptMessage)
            /\ dPc' = IF documentIds = {} THEN "respond" ELSE "embeddings"
            /\ dResponse' = dResponse
    /\ UNCHANGED <<dConv, documentIds, docsRemoved, chunkRows, embeddingRows>>
    /\ UNCHANGED <<histVars, notDeleteVars>>

\* lines 95-98: delete the Conversation row (P2025 when there is none).  Its
\* messages and their sources go with it (ON DELETE CASCADE); its documents
\* stay, with conversationId NULL (Document_conversationId_fkey, ON DELETE
\* SET NULL), written here as 0.
DConversation ==
    /\ dPc = "conversation"
    /\ IF dConv \notin conversations
       THEN /\ dResponse' = DeleteResponse(404, FALSE)
            /\ dPc' = "done"
            /\ UNCHANGED <<conversations, documents, messages, messageSources>>
       ELSE /\ conversations' = conversations \ {dConv}
            /\ documents' =
                  [d \in DOMAIN documents |->
                      IF documents[d].conversationId = dConv
                      THEN [documents[d] EXCEPT !.conversationId = 0]
                      ELSE documents[d]]
            /\ LET KeptSource(ms) ==
                       messages[ms.messageId].conversationId # dConv
                   KeptMessage(m) == m.conversationId # dConv
               IN  /\ messageSources' = SelectSeq(messageSources, KeptSource)
                   /\ messages' = SelectSeq(messages, KeptMessage)
            /\ dPc' = IF documentIds = {} THEN "respond" ELSE "embeddings"
            /\ dResponse' = dResponse
    /\ UNCHANGED <<dConv, documentIds, docsRemoved, chunkRows, embeddingRows>>
    /\ UNCHANGED <<histVars, notDeleteVars>>

\* lines 106-115: embedding.deleteMany; an error goes to the catch of line
\* 131 and the handler carries on
DEmbeddings ==
    /\ dPc = "embeddings"
    /\ \/ /\ embeddingRows' = EmbeddingsWithout(ChunksOfDocs(documentIds))
          /\ dPc' = "chunks"
       \/ /\ embeddingRows' = embeddingRows
          /\ dPc' = "respond"
    /\ UNCHANGED <<dConv, documentIds, docsRemoved, dResponse, conversations,
                   documents, chunkRows, messages, messageSources>>
    /\ UNCHANGED <<histVars, notDeleteVars>>

\* lines 117-122: chunk.deleteMany
DChunks ==
    /\ dPc = "chunks"
    /\ \/ /\ chunkRows' = [c \in DOMAIN chunkRows \ ChunksOfDocs(documentIds)
                              |-> chunkRows[c]]
          /\ embeddingRows' = EmbeddingsWithout(ChunksOfDocs(documentIds))
          /\ dPc' = "documents"
       \/ /\ UNCHANGED <<chunkRows, embeddingRows>>
          /\ dPc' = "respond"
    /\ UNCHANGED <<dConv, documentIds, docsRemoved, dResponse, conversations,
                   documents, messages, messageSources>>
    /\ UNCHANGED <<histVars, notDeleteVars>>

\* lines 124-131: document.deleteMany, then docsRemoved
DDocuments ==
    /\ dPc = "documents"
    /\ \/ /\ documents' = [d \in DOMAIN documents \ documentIds |-> documents[d]]
          /\ chunkRows' = [c \in DOMAIN chunkRows \ ChunksOfDocs(documentIds)
                              |-> chunkRows[c]]
          /\ embeddingRows' = EmbeddingsWithout(ChunksOfDocs(documentIds))
          /\ docsRemoved' = Cardinality(documentIds)
       \/ /\ UNCHANGED <<documents, chunkRows, embeddingRows, docsRemoved>>
    /\ dPc' = "respond"
    /\ UNCHANGED <<dConv, documentIds, dResponse, conversations, messages,
                   messageSources>>
    /\ UNCHANGED <<histVars, notDeleteVars>>

\* lines 139-171: unlink the files (the store is not touched), then answer
\* deleted: true
DRespond ==
    /\ dPc = "respond"
    /\ dResponse' = DeleteResponse(200, TRUE)
    /\ dPc' = "done"
    /\ UNCHANGED <<dConv, documentIds, docsRemoved>>
    /\ UNCHANGED <<storeVars, histVars, notDeleteVars>>

DeleteNext == DFind \/ DConversation \/ DEmbeddings \/ DChunks \/ DDocuments
                 \/ DRespond

(***************************************************************************)
(* POST /api/upload with embedDocument (lib/ingest.ts), one step per       *)
(* awaited call that reads or writes the store.  The file is a PDF that    *)
(* chunkText cuts into two fragments.                                      *)
(***************************************************************************)
NewDoc == Cardinality(Docs) + 1

MaxOf(S) == CHOOSE x \in S : \A y \in S : y <= x

\* "id" SERIAL: the ids of the rows an insert creates follow every id given
\* out so far (the rows of the initial corpus have the ids 1..MaxChunks)
FirstNewChunkId == MaxOf(DOMAIN chunkRows \cup {MaxChunks}) + 1
NewChunkIds == {FirstNewChunkId, FirstNewChunkId + 1}
FirstNewEmbeddingId ==
    MaxOf({embeddingRows[n].id : n \in 1..Len(embeddingRows)} \cup {MaxChunks})
        + 1

UpOff ==
    /\ uConv = 0
    /\ uPc = "off"
    /\ uDoc = 0
    /\ insertedChunks = <<>>
    /\ uResponse = 0

\* the conversationId of the form: 0 is missing, 3 no conversation
UpStart ==
    /\ uConv \in 0..3
    /\ uPc = "start"
    /\ uDoc = 0
    /\ insertedChunks = <<>>
    /\ uResponse = 0

\* route lines 213-267: conversationId, the conversation lookup, the file
UCheck ==
    /\ uPc = "start"
    /\ IF uConv = 0
       THEN uResponse' = 400 /\ uPc' = "done"
       ELSE IF uConv \notin conversations
       THEN uResponse' = 404 /\ uPc' = "done"
       ELSE \/ uResponse' = 400 /\ uPc' = "done"
            \/ uResponse' = uResponse /\ uPc' = "create"
    /\ UNCHANGED <<uConv, uDoc, insertedChunks>>
    /\ UNCHANGED <<storeVars, histVars, notUploadVars>>

\* route lines 269-283: save the file, create the Document row; the insert
\* fails when the conversation is gone (Document_conversationId_fkey)
UCreate ==
    /\ uPc = "create"
    /\ IF uConv \notin conversations
       THEN /\ uResponse' = 500
            /\ uPc' = "done"
            /\ UNCHANGED <<uDoc, documents, belonged>>
       ELSE /\ uDoc' = NewDoc
            /\ documents' =
                  [d \in DOMAIN documents \cup {NewDoc} |->
                      IF d = NewDoc
                      THEN [conversationId |-> uConv, filename |-> <<"c">>]
                      ELSE documents[d]]
            /\ belonged' = [belonged EXCEPT ![uConv] = @ \cup {NewDoc}]
            /\ uPc' = "find"
            /\ uResponse' = uResponse
    /\ UNCHANGED <<uConv, insertedChunks, initialStore, conversations,
                   chunkRows, embeddingRows, messages, messageSources>>
    /\ UNCHANGED notUploadVars

\* the status the route gives an error of embedDocument (route lines
\* 291-295)
EmbedErrorStatus == [notfound |-> 404, notext |-> 422, ollama |-> 503,
                     other |-> 500]

\* ingest lines 26-79: the duplicate check, the Document lookup, the file,
\* its text and its fragments
UFind ==
    /\ uPc = "find"
    /\ IF \E c \in DOMAIN chunkRows : chunkRows[c].documentId = uDoc
       THEN uResponse' = EmbedErrorStatus.other /\ uPc' = "done"
       ELSE IF uDoc \notin DOMAIN documents
       THEN uResponse' = EmbedErrorStatus.notfound /\ uPc' = "done"
       ELSE \/ \E kind \in {"notfound", "notext", "other"} :
                  uResponse' = EmbedErrorStatus[kind] /\ uPc' = "done"
            \/ uResponse' = uResponse /\ uPc' = "chunks"
    /\ UNCHANGED <<uConv, uDoc, insertedChunks>>
    /\ UNCHANGED <<storeVars, histVars, notUploadVars>>

\* ingest lines 82-90: chunk.createMany; the insert fails when the Document
\* row is gone (Chunk_documentId_fkey)
UChunks ==
    /\ uPc = "chunks"
    /\ IF uDoc \notin DOMAIN documents
       THEN /\ uResponse' = EmbedErrorStatus.other
            /\ uPc' = "done"
            /\ chunkRows' = chunkRows
       ELSE /\ chunkRows' =
                  [c \in DOMAIN chunkRows \cup NewChunkIds |->
                      IF c \in NewChunkIds
                      THEN [documentId |-> uDoc,
                            chunkIndex |-> c - FirstNewChunkId,
                            text |-> <<"t">>]
                      ELSE chunkRows[c]]
            /\ uPc' = "inserted"
            /\ uResponse' = uResponse
    /\ UNCHANGED <<uConv, uDoc, insertedChunks, conversations, documents,
                   embeddingRows, messages, messageSources>>
    /\ UNCHANGED <<histVars, notUploadVars>>

\* ingest lines 92-135: read the chunks back, embed their texts
UInserted ==
    /\ uPc = "inserted"
    /\ insertedChunks' = SeqOfSet(ChunksOfDocs({uDoc}))
    /\ \/ \E kind \in {"notfound", "ollama", "other"} :
             uResponse' = EmbedErrorStatus[kind] /\ uPc' = "done"
       \/ uResponse' = uResponse /\ uPc' = "embeddings"
    /\ UNCHANGED <<uConv, uDoc>>
    /\ UNCHANGED <<storeVars, histVars, notUploadVars>>

\* ingest lines 137-158 and route lines 311-326: embedding.createMany, then
\* 201; the insert fails when a chunk read back is gone
\* (Embedding_chunkId_fkey)
UEmbeddings ==
    /\ uPc = "embeddings"
    /\ IF \E n \in 1..Len(insertedChunks) :
             insertedChunks[n] \notin DOMAIN chunkRows
       THEN /\ uResponse' = EmbedErrorStatus.other
            /\ embeddingRows' = embeddingRows
       ELSE /\ uResponse' = 201
            /\ embeddingRows' = embeddingRows \o
                  [n \in 1..Len(insertedChunks) |->
                      [id |-> FirstNewEmbeddingId + n - 1,
                       chunkId |-> insertedChunks[n],
                       vector |-> <<1, 0>>]]
    /\ uPc' = "done"
    /\ UNCHANGED <<uConv, uDoc, insertedChunks, conversations, documents,
                   chunkRows, messages, messageSources>>
    /\ UNCHANGED <<histVars, notUploadVars>>

UploadNext == UCheck \/ UCreate \/ UFind \/ UChunks \/ UInserted \/ UEmbeddings

(***************************************************************************)
(* POST /api/embed (part_006), one step per awaited call that reads or     *)
(* writes the store.  The file is a PDF that chunkText cuts into two       *)
(* fragments.                                                              *)
(***************************************************************************)
EmbOff ==
    /\ eDoc = 0
    /\ ePc = "off"
    /\ eInserted = <<>>
    /\ eResponse = 0

\* the documentId of the body: 0 is missing or not a number, NewDoc the
\* document an upload creates
EmbStart ==
    /\ eDoc \in 0..NewDoc
    /\ ePc = "start"
    /\ eInserted = <<>>
    /\ eResponse = 0

\* lines 19-41: the body, then chunk.findFirst, the duplicate check
EExisting ==
    /\ ePc = "start"
    /\ IF eDoc = 0
       THEN eResponse' = 400 /\ ePc' = "done"
       ELSE IF \E c \in DOMAIN chunkRows : chunkRows[c].documentId = eDoc
       THEN eResponse' = 409 /\ ePc' = "done"
       ELSE eResponse' = eResponse /\ ePc' = "document"
    /\ UNCHANGED <<eDoc, eInserted>>
    /\ UNCHANGED <<storeVars, histVars, notEmbedVars>>

\* lines 43-105: document.findUnique, the file, its text and its fragments
EDocument ==
    /\ ePc = "document"
    /\ IF eDoc \notin DOMAIN documents
       THEN eResponse' = 404 /\ ePc' = "done"
       ELSE \/ \E status \in {404, 500, 422} :
                  eResponse' = status /\ ePc' = "done"
            \/ eResponse' = eResponse /\ ePc' = "chunks"
    /\ UNCHANGED <<eDoc, eInserted>>
    /\ UNCHANGED <<storeVars, histVars, notEmbedVars>>

\* lines 107-115: chunk.createMany; the insert fails when the Document row
\* is gone (Chunk_documentId_fkey) and the catch of line 184 answers 500
EChunks ==
    /\ ePc = "chunks"
    /\ IF eDoc \notin DOMAIN documents
       THEN /\ eResponse' = 500
            /\ ePc' = "done"
            /\ chunkRows' = chunkRows
       ELSE /\ chunkRows' =
                  [c \in DOMAIN chunkRows \cup NewChunkIds |->
                      IF c \in NewChunkIds
                      THEN [documentId |-> eDoc,
                            chunkIndex |-> c - FirstNewChunkId,
                            text |-> <<"t">>]
                      ELSE chunkRows[c]]
            /\ ePc' = "inserted"
            /\ eResponse' = eResponse
    /\ UNCHANGED <<eDoc, eInserted, conversations, documents, embeddingRows,
                   messages, messageSources>>
    /\ UNCHANGED <<histVars, notEmbedVars>>

\* lines 117-173: read the chunks back, embed their texts; the embedder
\* fails (503, 404, 500) or gives the wrong number of vectors (500)
EInserted ==
    /\ ePc = "inserted"
    /\ eInserted' = SeqOfSet(ChunksOfDocs({eDoc}))
    /\ \/ \E status \in {503, 404, 500} :
             eResponse' = status /\ ePc' = "done"
       \/ eResponse' = eResponse /\ ePc' = "embeddings"
    /\ UNCHANGED eDoc
    /\ UNCHANGED <<storeVars, histVars, notEmbedVars>>

\* lines 175-190: embedding.createMany, then the counts; the insert fails
\* when a chunk read back is gone (Embedding_chunkId_fkey)
EEmbeddings ==
    /\ ePc = "embeddings"
    /\ IF \E n \in 1..Len(eInserted) : eInserted[n] \notin DOMAIN chunkRows
       THEN /\ eResponse' = 500
            /\ embeddingRows' = embeddingRows
       ELSE /\ eResponse' = 200
            /\ embeddingRows' = embeddingRows \o
                  [n \in 1..Len(eInserted) |->
                      [id |-> FirstNewEmbeddingId + n - 1,
                       chunkId |-> eInserted[n],
                       vector |-> <<1, 0>>]]
    /\ ePc' = "done"
    /\ UNCHANGED <<eDoc, eInserted, conversations, documents, chunkRows,
                   messages, messageSources>>
    /\ UNCHANGED <<histVars, notEmbedVars>>

EmbedNext == EExisting \/ EDocument \/ EChunks \/ EInserted \/ EEmbeddings

\* what the store held at the start, and the documents of each conversation
HistStart ==
    /\ initialStore = [documents |-> documents, chunkRows |-> chunkRows,
                       embeddingRows |-> embeddingRows]
    /\ belonged = [c \in ConvIds |->
                      {d \in DOMAIN documents : documents[d].conversationId = c}]

(***************************************************************************)
(* Specifications.                                                         *)
(***************************************************************************)
RankInit ==
    RankStart /\ ChunkOff /\ CtxOff /\ StoreOff /\ ReqOff /\ DelOff /\ UpOff
        /\ HistStart /\ CosOff /\ EmbOff

RankSpec == RankInit /\ [][RankNext]_vars

ChunkInit ==
    ChunkStart /\ RankOff /\ CtxOff /\ StoreOff /\ ReqOff /\ DelOff /\ UpOff
        /\ HistStart /\ CosOff /\ EmbOff

ChunkSpec == ChunkInit /\ [][ChunkNext]_vars

\* chunkText is synchronous code: once called it keeps running
ChunkFairSpec == ChunkSpec /\ WF_vars(ChunkNext)

CtxInit ==
    CtxStart /\ RankOff /\ ChunkOff /\ StoreOff /\ ReqOff /\ DelOff /\ UpOff
        /\ HistStart /\ CosOff /\ EmbOff

CtxSpec == CtxInit /\ [][CtxNext]_vars

QueryInit ==
    StoreStart /\ ReqStart /\ RankOff /\ ChunkOff /\ CtxOff /\ DelOff /\ UpOff
        /\ HistStart /\ CosOff /\ EmbOff

QuerySpec == QueryInit /\ [][QueryNext]_vars

CosInit ==
    CosStart /\ RankOff /\ ChunkOff /\ CtxOff /\ StoreOff /\ ReqOff /\ DelOff
        /\ UpOff /\ HistStart /\ EmbOff

CosSpec == CosInit /\ [][CosCall]_vars

\* the steps of a query that read the store
RetrievalNext == QValidate \/ QEmbed \/ QPrefilter \/ QFetch

\* the retrieval of a query and the deletion of a conversation, run side by
\* side: a well-formed request for either conversation, the deletion of
\* either conversation, and a corpus in which every stored embedding is
\* usable (the two routes read the store with the same statements, and
\* neither a filename nor a vector decides what a read ranges over)
DeleteInit ==
    /\ StoreStart /\ ReqStart /\ RankOff /\ ChunkOff /\ CtxOff /\ DelStart
    /\ UpOff /\ HistStart /\ CosOff /\ EmbOff
    /\ route = "query"
    /\ Trim(question) # <<>>
    /\ conversationId \in ConvIds
    /\ dConv \in ConvIds
    /\ \A d \in DOMAIN documents : documents[d].filename = <<"a">>
    /\ \A n \in 1..Len(embeddingRows) : UsableEmbedding(embeddingRows[n])

DeleteSpec == DeleteInit /\ [][RetrievalNext \/ DeleteNext]_vars

\* an upload and the deletion of a conversation, run side by side
LifecycleInit ==
    StoreStart /\ ReqOff /\ RankOff /\ ChunkOff /\ CtxOff /\ DelStart
        /\ UpStart /\ HistStart /\ CosOff /\ EmbOff

LifecycleSpec == LifecycleInit /\ [][DeleteNext \/ UploadNext]_vars

\* an upload, whose embedDocument embeds the new document, and a request to
\* POST /api/embed, run side by side
EmbedInit ==
    StoreStart /\ ReqOff /\ RankOff /\ ChunkOff /\ CtxOff /\ DelOff /\ UpStart
        /\ HistStart /\ CosOff /\ EmbStart

EmbedSpec == EmbedInit /\ [][UploadNext \/ EmbedNext]_vars

\* the retrieval of a query and an upload, whose embedDocument embeds the
\* new document, run side by side: a well-formed request on either route
\* for either conversation and an upload into either conversation, over a
\* corpus whose ingestion is complete: every chunk stored at the start has
\* its embedding (no filename decides what a read ranges over)
IngestInit ==
    /\ StoreStart /\ ReqStart /\ RankOff /\ ChunkOff /\ CtxOff /\ DelOff
    /\ UpStart /\ HistStart /\ CosOff /\ EmbOff
    /\ Trim(question) # <<>>
    /\ conversationId \in ConvIds
    /\ uConv \in ConvIds
    /\ \A d \in DOMAIN documents : documents[d].filename = <<"a">>
    /\ \A c \in DOMAIN chunkRows :
          \E n \in 1..Len(embeddingRows) : embeddingRows[n].chunkId = c

IngestSpec == IngestInit /\ [][RetrievalNext \/ UploadNext]_vars

(***************************************************************************)
(* Properties of chunkText.                                                *)
(***************************************************************************)
\* C2: for a non-empty text, size > 0 and overlap >= 0 the loop of chunkText
\* ends after finitely many iterations.
C2_ChunkTerminates ==
    (chunkPc = "call" /\ chunkSize > 0) ~> (chunkPc = "done")

\* C11: called with size <= 0, chunkText hands control back to its caller
\* with an input-validation failure.  Stated for a text that is not blank;
\* a blank text returns [] before the size is looked at.
C11_NonPositiveSizeRejected ==
    (chunkPc = "call" /\ chunkSize <= 0 /\ Trim(input) # <<>>)
        ~> (chunkPc = "threw")

\* C24: with size > 0 and overlap >= size, every iteration of the loop that
\* is followed by another one leaves the window start strictly greater than
\* it found it, so that no window is processed twice.
C24_WindowStartIncreases ==
    [][(chunkPc = "body" /\ chunkPc' = "test" /\ chunkSize > 0
            /\ overlap >= chunkSize)
          => startIndex' > startIndex]_vars

\* C12: the n-th fragment emitted has index n - 1, a non-empty text without
\* leading or trailing whitespace, and tokenCount equal to the length of its
\* text.
C12_FragmentsWellFormed ==
    \A n \in 1..Len(chunks) :
        /\ chunks[n].index = n - 1
        /\ chunks[n].text # <<>>
        /\ ~IsSpace(chunks[n].text[1])
        /\ ~IsSpace(chunks[n].text[Len(chunks[n].text)])
        /\ chunks[n].tokenCount = Len(chunks[n].text)

\* a finished call with one-character windows in which a whitespace-only
\* window lay between two emitted fragments
C12_Witness ==
    /\ chunkPc = "done"
    /\ chunkSize = 1
    /\ overlap = 0
    /\ Len(chunks) >= 2
    /\ Len(chunks) < Len(text)

RECURSIVE StripSpaces(_)
\* s with every whitespace character deleted
StripSpaces(s) ==
    IF s = <<>> THEN <<>>
    ELSE IF IsSpace(Head(s)) THEN StripSpaces(Tail(s))
    ELSE <<Head(s)>> \o StripSpaces(Tail(s))

\* the texts of the fragments, concatenated in index order
FragmentTexts == Join([n \in 1..Len(chunks) |-> chunks[n].text])

\* C13: with overlap = 0 and size > 0 the fragments, concatenated and with
\* whitespace deleted, are the trimmed input with whitespace deleted.
C13_NoOverlapReconstructs ==
    (chunkPc = "done" /\ overlap = 0 /\ chunkSize > 0) =>
        StripSpaces(FragmentTexts) = StripSpaces(Trim(input))

\* a finished call without overlap that cut a text with inner whitespace
\* into several fragments
C13_Witness ==
    /\ chunkPc = "done"
    /\ overlap = 0
    /\ chunkSize > 1
    /\ Len(chunks) >= 2
    /\ \E n \in 1..Len(text) : IsSpace(text[n])

NoSpaces(s) == \A n \in 1..Len(s) : ~IsSpace(s[n])

\* offset of the k-th window (k from 0) when each step advances by
\* size - overlap
WindowStart(w) == w * (chunkSize - overlap)

\* C14: for 0 <= overlap < size and a text without whitespace, window k
\* starts at k * (size - overlap) and holds the at most size characters from
\* there, and the last window is the first one that reaches the end of the
\* text; the 3000-character text with size 1500 and overlap 200 gives three
\* fragments, at offsets 0, 1300 and 2600.
C14_WindowsAdvanceByStep ==
    (overlap < chunkSize /\ NoSpaces(input)) =>
        /\ chunkPc = "body" => startIndex = WindowStart(Len(chunks))
        /\ \A n \in 1..Len(chunks) :
              /\ chunks[n].index = n - 1
              /\ chunks[n].text =
                    Substring(text, WindowStart(n - 1),
                              Min(WindowStart(n - 1) + chunkSize, Len(text)))
              /\ Len(chunks[n].text) <= chunkSize
              /\ n < Len(chunks) => WindowStart(n - 1) + chunkSize < Len(text)
        /\ (chunkPc = "done" /\ input # <<>>) =>
              /\ chunks # <<>>
              /\ WindowStart(Len(chunks) - 1) + chunkSize >= Len(text)
        /\ (chunkPc = "done" /\ Len(input) = 3000 /\ chunkSize = 1500
                /\ overlap = 200) =>
              /\ Len(chunks) = 3
              /\ \A n \in 1..3 :
                    chunks[n].text =
                        Substring(text, <<0, 1300, 2600>>[n],
                                  Min(<<0, 1300, 2600>>[n] + 1500, 3000))

\* the 3000-character text chunked to the end
C14_Witness ==
    /\ chunkPc = "done"
    /\ Len(input) = 3000
    /\ chunkSize = 1500
    /\ overlap = 200
    /\ Len(chunks) = 3

\* a short text chunked with a positive overlap into three windows or more
C14_WitnessShort ==
    /\ chunkPc = "done"
    /\ NoSpaces(input)
    /\ 0 < overlap
    /\ overlap < chunkSize
    /\ Len(chunks) >= 3

(***************************************************************************)
(* Properties of buildContext.                                             *)
(***************************************************************************)
\* C3: the context is at most maxChars long, except when the rendered first
\* fragment alone is longer than maxChars, and then the context is exactly
\* that rendered fragment.
C3_ContextWithinBudget ==
    (ctxPc = "done") =>
        \/ Len(ctxResult.context) <= maxChars
        \/ /\ chosen # <<>>
           /\ Len(RenderChunk(chosen[1])) > maxChars
           /\ ctxResult.context = RenderChunk(chosen[1])

\* a finished call whose first fragment alone exceeds the budget, with more
\* fragments behind it
C3_Witness ==
    /\ ctxPc = "done"
    /\ Len(chosen) >= 2
    /\ Len(RenderChunk(chosen[1])) > maxChars
    /\ ctxResult.context = RenderChunk(chosen[1])

\* a finished call that took two fragments or more and stopped at one that
\* did not fit
C3_WitnessStop ==
    /\ ctxPc = "done"
    /\ ci >= 2
    /\ ci < Len(chosen)
    /\ Len(ctxResult.context) <= maxChars

RECURSIVE RenderedLength(_)
\* total length of the first n fragments of the input, rendered
RenderedLength(n) ==
    IF n = 0 THEN 0 ELSE RenderedLength(n - 1) + Len(RenderChunk(chosen[n]))

\* fragment n is the first one, or the total up to and including it is
\* within the budget
FitsUpTo(n) == n = 1 \/ RenderedLength(n) <= maxChars

\* the length of the longest prefix of the input all of whose fragments fit
GreedyPrefix ==
    CHOOSE m \in 0..Len(chosen) :
        /\ \A n \in 1..m : FitsUpTo(n)
        /\ m < Len(chosen) => ~FitsUpTo(m + 1)

\* C15: the context is the first GreedyPrefix fragments of the input,
\* rendered in order: the first fragment always, each later one while the
\* running total stays within maxChars, none after the first that does not
\* fit.
C15_IncludedIsGreedyPrefix ==
    (ctxPc = "done") =>
        /\ chosen # <<>> => (GreedyPrefix >= 1 /\ ctxResult.context # <<>>)
        /\ contextParts = [n \in 1..GreedyPrefix |-> RenderChunk(chosen[n])]
        /\ ctxResult.context = Join(contextParts)

\* a finished call that stopped at its second fragment although the third
\* would have fitted
C15_Witness ==
    /\ ctxPc = "done"
    /\ Len(chosen) = 3
    /\ Len(contextParts) = 1
    /\ currentLength + Len(RenderChunk(chosen[3])) <= maxChars

\* the (filename, chunkIndex) identity of a fragment or a source
PairOf(c) == <<c.filename, c.chunkIndex>>

\* position in the input of the first fragment with the identity of source s
FirstSeen(s) ==
    CHOOSE n \in 1..Len(chosen) :
        /\ PairOf(chosen[n]) = PairOf(s)
        /\ \A o \in 1..(n - 1) : PairOf(chosen[o]) # PairOf(s)

\* C16: the sources returned hold no (filename, chunkIndex) twice, are the
\* identities of the fragments included in the context, in the order of
\* their first occurrence; an empty input gives an empty context and no
\* sources.
C16_SourcesDistinctInOrder ==
    (ctxPc = "done") =>
        /\ \A a, b \in 1..Len(ctxResult.sources) :
              PairOf(ctxResult.sources[a]) = PairOf(ctxResult.sources[b])
                  => a = b
        /\ {PairOf(ctxResult.sources[a]) : a \in 1..Len(ctxResult.sources)}
              = {PairOf(chosen[n]) : n \in 1..Len(contextParts)}
        /\ \A a, b \in 1..Len(ctxResult.sources) :
              a < b => FirstSeen(ctxResult.sources[a])
                          < FirstSeen(ctxResult.sources[b])
        /\ \A a \in 1..Len(ctxResult.sources) :
              DOMAIN ctxResult.sources[a] = {"filename", "chunkIndex"}
        /\ chosen = <<>> =>
              (ctxResult.context = <<>> /\ ctxResult.sources = <<>>)

\* a finished call that included three fragments of which the first and the
\* third share their identity
C16_Witness ==
    /\ ctxPc = "done"
    /\ Len(contextParts) = 3
    /\ PairOf(chosen[1]) = PairOf(chosen[3])
    /\ PairOf(chosen[1]) # PairOf(chosen[2])
    /\ Len(ctxResult.sources) = 2

\* a call with no fragments
C16_WitnessEmpty ==
    /\ ctxPc = "done"
    /\ chosen = <<>>
    /\ ctxResult.sources = <<>>

(***************************************************************************)
(* Properties of the query routes.                                         *)
(***************************************************************************)
\* the request ended with an answer: a 200 JSON answer, or a stream that
\* closed with a 'done' event
Success ==
    \/ route = "query" /\ response.status = 200 /\ response.kind = "answer"
    \/ /\ route = "stream"
       /\ response.kind = "stream"
       /\ events # <<>>
       /\ events[Len(events)].type = "done"

\* the request got as far as findMany
Fetched ==
    /\ qPc \in {"generate", "persist", "done"}
    /\ response.error \notin {"question_required", "no_conversation_id",
                              "conversation_not_found", "embedder",
                              "embedding_failed", "prefilter"}

\* the stored embeddings of the request's conversation
InScopeEmbeddings ==
    {n \in 1..Len(embeddingRows) :
        InScopeChunk(embeddingRows[n].chunkId, conversationId)}

UsableInScope ==
    {embeddingRows[n].chunkId : n \in {o \in InScopeEmbeddings :
                                          Len(embeddingRows[o].vector) > 0}}

HandedToRanking == {vectorRows[n].id : n \in 1..Len(vectorRows)}

C21_PersistFailureKeepsAnswer ==
    (qPc = "done" /\ writes >= 0) =>
        /\ route = "query" =>
              /\ response = [status |-> 200, kind |-> "answer", error |-> "",
                              answer |-> Trim(fullAnswer),
                              sources |-> sourcesWithDocId]
              /\ fullAnswer \in Answers
        /\ route = "stream" =>
              /\ response.status = 200
              /\ events[1] = Event("sources", sourcesWithDocId)
              /\ events[Len(events)] = Event("done", fullAnswer)
              /\ \A n \in 1..Len(events) : events[n].type # "error"

\* a request that ended after the user message was stored and the write of
\* the assistant message failed
C21_Witness ==
    /\ qPc = "done"
    /\ writes = 1
    /\ Len(messages) = 1
    /\ Success

\* the same with the update of the conversation's timestamp failing
C21_WitnessTimestamp ==
    /\ qPc = "done"
    /\ writes = 3
    /\ Len(messages) = 2
    /\ Success

\* no step after the embedding has left a trace: no read of the store, no
\* candidates, no rows fetched or ranked, no prompt, no event, no answer,
\* nothing persisted
NothingRanAfterEmbed ==
    /\ readViews = <<>>
    /\ ~ftsFailed
    /\ candidateChunkIds = <<>>
    /\ embeddings = <<>>
    /\ vectorRows = <<>>
    /\ chosenRows = <<>>
    /\ prompt = <<>>
    /\ events = <<>>
    /\ fullAnswer = <<>>
    /\ writes < 0
    /\ messages = <<>>
    /\ messageSources = <<>>

\* C22: the steps after the embedding run only with a non-empty query
\* vector; when the embedder gives no vector or an empty first vector the
\* request has ended with the 500 error and none of the later steps ran.
C22_NoQueryVectorIsTerminal ==
    /\ qPc \in {"prefilter", "fetch", "generate", "persist"}
          => Len(queryVector) > 0
    /\ response.error = "embedding_failed" =>
          /\ qPc = "done"
          /\ response = Json(500, "embedding_failed")
          /\ queryVector = <<>>
    /\ queryVector = <<>> => NothingRanAfterEmbed

\* a request that ended with the embedding error over a conversation that
\* holds a usable embedding
C22_Witness ==
    /\ qPc = "done"
    /\ response.error = "embedding_failed"
    /\ UsableInScope # {}

\* C27: on either route the prompt handed to the generator has the context
\* that was built in its CONTEXT section and the question in its QUESTION
\* section, so that both routes hand over the same prompt for the same
\* question and context.
C27_SamePromptOnBothRoutes ==
    prompt # <<>> =>
        prompt = <<"INSTRUCTIONS", "CONTEXT:">> \o built.context
                    \o <<"QUESTION:">> \o question \o <<"ANSWER:">>

\* C28: a query whose conversation holds, at the moment of its findMany, at
\* least one stored embedding with a non-empty vector does not end with the
\* 'No embedded content' error, whatever the prefilter returned and
\* whatever a concurrent embedDocument has inserted so far.
C28_EmbeddedContentIsFound ==
    [][(qPc = "fetch" /\ UsableInScope # {})
          => response'.error # "no_embedded_content"]_vars

\* C17: when findMany has answered and no row with a usable vector is left
\* to rank, the request has ended with the 422 error of an empty corpus and
\* the generator was not called: no prompt was built and nothing was
\* streamed.
C17_NoUsableEmbeddingIsError ==
    (Fetched /\ vectorRows = <<>>) =>
        /\ qPc = "done"
        /\ response.kind = "error"
        /\ response.status = 422
        /\ prompt = <<>>
        /\ events = <<>>
        /\ fullAnswer = <<>>

\* the text of the 'delta' events among the first n events
RECURSIVE DeltaText(_)
DeltaText(n) ==
    IF n = 0 THEN <<>>
    ELSE IF events[n].type = "delta" THEN DeltaText(n - 1) \o events[n].data
    ELSE DeltaText(n - 1)

HasMessage(role) ==
    \E n \in 1..Len(messages) :
        /\ messages[n].conversationId = conversationId
        /\ messages[n].role = role

\* C29: after the persist step, failing writes included, the conversation
\* holds the user message of the query exactly when it holds the assistant
\* message.
C29_PersistAllOrNothing ==
    (qPc = "done" /\ writes >= 0) =>
        (HasMessage("user") <=> HasMessage("assistant"))

Terminal(e) == e.type \in {"done", "error"}

\* C30: a response stream starts with the one 'sources' event, goes on with
\* 'delta' events only, and ends with the one terminal event, 'done' or
\* 'error', after which it has no event; the fullAnswer of 'done' is the
\* concatenation of the deltas sent.
C30_StreamWellFormed ==
    /\ response.kind = "stream" <=> events # <<>>
    /\ events # <<>> =>
          /\ events[1] = Event("sources", sourcesWithDocId)
          /\ \A n \in 2..Len(events) :
                /\ events[n].type \in {"delta", "done", "error"}
                /\ Terminal(events[n]) => n = Len(events)
          /\ Terminal(events[Len(events)]) <=> qPc = "done"
          /\ events[Len(events)].type = "done" =>
                events[Len(events)].data = DeltaText(Len(events))

\* a stream that ended with 'done' after MaxDeltas deltas
C30_Witness ==
    /\ qPc = "done"
    /\ Len(events) = MaxDeltas + 2
    /\ events[Len(events)].type = "done"
    /\ events[Len(events)].data # <<>>

\* a stream that ended with 'error' after a delta
C30_WitnessError ==
    /\ qPc = "done"
    /\ Len(events) = 3
    /\ events[2].type = "delta"
    /\ events[3].type = "error"

InitialChunksOf(d) ==
    {c \in DOMAIN initialStore.chunkRows :
        initialStore.chunkRows[c].documentId = d}

InitialEmbeddingsOf(d) ==
    {initialStore.embeddingRows[n].id :
        n \in {o \in 1..Len(initialStore.embeddingRows) :
                  initialStore.embeddingRows[o].chunkId \in InitialChunksOf(d)}}

\* C19: at each read of the query, the rows of a document that are within
\* the query's scope are all the chunks and embeddings the document had, or
\* none of them, wherever the DELETE handler stands.
C19_ReadsSeeAllOrNone ==
    \A n \in 1..Len(readViews) :
        \A d \in DOMAIN initialStore.documents :
            \/ /\ readViews[n].chunks \cap InitialChunksOf(d) = {}
               /\ readViews[n].embeddings \cap InitialEmbeddingsOf(d) = {}
            \/ /\ InitialChunksOf(d) \subseteq readViews[n].chunks
               /\ InitialEmbeddingsOf(d) \subseteq readViews[n].embeddings

\* a query of the conversation being deleted that read the store before the
\* Conversation row was deleted and saw a document with two embedded
\* chunks, and read it again after the embeddings were deleted, the chunks
\* still stored
C19_Witness ==
    /\ conversationId = dConv
    /\ Len(readViews) = 2
    /\ readViews[1].during = "conversation"
    /\ \E d \in DOMAIN initialStore.documents :
          /\ Cardinality(InitialEmbeddingsOf(d)) >= 2
          /\ InitialEmbeddingsOf(d) \subseteq readViews[1].embeddings
    /\ readViews[2].during = "chunks"
    /\ readViews[2].chunks = {}
    /\ readViews[2].embeddings = {}

\* C20: once DELETE has answered deleted: true and the upload has ended, no
\* Document, Chunk or Embedding row of a document created in the deleted
\* conversation is stored.
C20_DeleteLeavesNoRows ==
    (dPc = "done" /\ dResponse.deleted /\ uPc = "done") =>
        /\ DOMAIN documents \cap belonged[dConv] = {}
        /\ ChunksOfDocs(belonged[dConv]) = {}
        /\ \A n \in 1..Len(embeddingRows) :
              embeddingRows[n].chunkId \notin ChunksOfDocs(belonged[dConv])

DocInScope(d) ==
    d \in DOMAIN documents /\ documents[d].conversationId = conversationId

SourceInScope(s) ==
    /\ DocInScope(s.documentId)
    /\ InScopeChunk(s.chunkId, conversationId)
    /\ chunkRows[s.chunkId].documentId = s.documentId

\* C6: every row handed to ranking, every row ranked, every fragment in the
\* context and every source returned, streamed or persisted belongs to a
\* document of the request's conversation.
C6_RetrievalStaysInScope ==
    /\ \A n \in 1..Len(embeddings) :
          InScopeChunk(embeddings[n].chunkId, conversationId)
    /\ \A n \in 1..Len(vectorRows) :
          DocInScope(vectorRows[n].docId)
              /\ InScopeChunk(vectorRows[n].id, conversationId)
    /\ \A n \in 1..Len(chosenRows) :
          DocInScope(chosenRows[n].docId)
              /\ InScopeChunk(chosenRows[n].id, conversationId)
    /\ \E m \in 0..Len(chosenRows) :
          built.context =
              Join([n \in 1..m |-> RenderChunk(ToChunkSource(chosenRows[n]))])
    /\ \A n \in 1..Len(sourcesWithDocId) : SourceInScope(sourcesWithDocId[n])
    /\ \A n \in 1..Len(response.sources) : SourceInScope(response.sources[n])
    /\ \A n \in 1..Len(events) :
          events[n].type = "sources" =>
              \A o \in 1..Len(events[n].data) : SourceInScope(events[n].data[o])
    /\ \A n \in 1..Len(messageSources) : SourceInScope(messageSources[n])

\* an answered request on the fall-back path whose sources were persisted,
\* while another conversation holds a usable embedding
C6_Witness ==
    /\ qPc = "done"
    /\ Success
    /\ candidateChunkIds = <<>>
    /\ messageSources # <<>>
    /\ \E n \in 1..Len(embeddingRows) :
          /\ ~InScopeChunk(embeddingRows[n].chunkId, conversationId)
          /\ Len(embeddingRows[n].vector) > 0

\* the same on the prefilter path
C6_WitnessPrefilter ==
    /\ qPc = "done"
    /\ Success
    /\ candidateChunkIds # <<>>
    /\ messageSources # <<>>
    /\ \E n \in 1..Len(embeddingRows) :
          /\ ~InScopeChunk(embeddingRows[n].chunkId, conversationId)
          /\ Len(embeddingRows[n].vector) > 0

(***************************************************************************)
(* Properties of rankByCosine.                                             *)
(***************************************************************************)
\* the similarity rankByCosine attaches to the candidate at position p
Scored(p) == Similarity(query, vectors[p].vector)

\* candidate a comes before candidate b in the stable descending order
Precedes(a, b) ==
    \/ SimGT(Scored(a), Scored(b))
    \/ SimEQ(Scored(a), Scored(b)) /\ a < b

\* 1-based place of candidate p in the stable descending order
PlaceOf(p) == Cardinality({a \in 1..Len(vectors) : Precedes(a, p)}) + 1

\* C1: for topK > 0 the result is exactly the first topK candidates of the
\* stable descending order by similarity: the r-th result is the candidate
\* whose place is r, with its similarity, and ties keep the earlier candidate.
C1_TopKStable ==
    (rankPc = "done" /\ topK > 0) =>
        /\ Len(rankResult) = Min(topK, Len(vectors))
        /\ \A r \in 1..Len(rankResult) :
              /\ rankResult[r].item \in {vectors[p] : p \in 1..Len(vectors)}
              /\ PlaceOf(rankResult[r].item.id) = r
              /\ rankResult[r].similarity = Scored(rankResult[r].item.id)

\* a finished call with more candidates than topK in which a candidate that
\* ties with a returned, earlier one was left out
C1_Witness ==
    /\ rankPc = "done"
    /\ topK > 0
    /\ Len(vectors) > topK
    /\ \E a, b \in 1..Len(vectors) :
          /\ a < b
          /\ SimEQ(Scored(a), Scored(b))
          /\ \E r \in 1..Len(rankResult) : rankResult[r].item.id = a
          /\ \A r \in 1..Len(rankResult) : rankResult[r].item.id # b

\* C7: with topK <= 0 the call returns an empty result and does not raise.
C7_NonPositiveTopKEmpty ==
    (topK <= 0) =>
        /\ rankPc # "threw"
        /\ (rankPc = "done" => rankResult = <<>>)

\* C8: a candidate whose vector length differs from the query's has
\* similarity exactly 0 in the result or is absent from it.
C8_MismatchedIsZero ==
    (rankPc = "done") =>
        \A r \in 1..Len(rankResult) :
            Len(rankResult[r].item.vector) # Len(query) =>
                SimEQ(rankResult[r].similarity, ZeroSim)

\* C9: the result is sorted by non-increasing similarity.
C9_SortedDescending ==
    (rankPc = "done") =>
        \A r \in 1..(Len(rankResult) - 1) :
            ~SimGT(rankResult[r + 1].similarity, rankResult[r].similarity)

\* a finished call whose working set never filled up and whose candidates
\* were not supplied in descending order
C9_Witness ==
    /\ rankPc = "done"
    /\ Len(vectors) < topK
    /\ \E a, b \in 1..Len(vectors) : a < b /\ SimGT(Scored(b), Scored(a))
    /\ Len(rankResult) = Len(vectors)

\* C10: with topK >= the number of candidates the call does not raise and
\* returns every candidate exactly once.
C10_AllReturnedOnce ==
    (topK >= Len(vectors)) =>
        /\ rankPc # "threw"
        /\ (rankPc = "done" =>
              /\ Len(rankResult) = Len(vectors)
              /\ \A p \in 1..Len(vectors) :
                    Cardinality({r \in 1..Len(rankResult) :
                                    rankResult[r].item = vectors[p]}) = 1)

\* a finished call with exactly topK candidates, two or more
C10_Witness ==
    /\ rankPc = "done"
    /\ topK = Len(vectors)
    /\ Len(vectors) >= 2
    /\ Len(rankResult) = Len(vectors)

(***************************************************************************)
(* Properties of embedding a document.                                     *)
(***************************************************************************)
ChunksOfDocument(d) == {c \in DOMAIN chunkRows : chunkRows[c].documentId = d}
EmbeddingsOfChunk(c) ==
    {n \in 1..Len(embeddingRows) : embeddingRows[n].chunkId = c}

\* C25: whatever the interleaving of the embedding requests, the chunks
\* stored for a document have pairwise distinct chunkIndex values, which
\* are exactly 0..n-1 for its n chunks: no document is chunked and stored
\* twice.
C25_ChunkIndexesDistinct ==
    \A d \in DOMAIN documents :
        /\ \A a, b \in ChunksOfDocument(d) :
              a # b => chunkRows[a].chunkIndex # chunkRows[b].chunkIndex
        /\ {chunkRows[c].chunkIndex : c \in ChunksOfDocument(d)}
              = 0..(Cardinality(ChunksOfDocument(d)) - 1)

\* C26: once embedDocument has returned or thrown, every chunk stored for
\* its document has exactly one embedding.
C26_EveryChunkEmbedded ==
    (uPc = "done" /\ uDoc # 0) =>
        \A c \in ChunksOfDocument(uDoc) :
            Cardinality(EmbeddingsOfChunk(c)) = 1

(***************************************************************************)
(* Properties of cosine.                                                   *)
(***************************************************************************)
Negated(v) == [j \in 1..Len(v) |-> 0 - v[j]]
IsZeroVector(v) == \A j \in 1..Len(v) : v[j] = 0
CosDot == SumTo([j \in 1..Len(cosA) |-> cosA[j] * cosB[j]], Len(cosA))

\* the guard cases of cosine: different lengths, an empty vector, a vector of
\* zero magnitude
CosGuarded ==
    \/ Len(cosA) # Len(cosB)
    \/ Len(cosA) = 0
    \/ Len(cosB) = 0
    \/ IsZeroVector(cosA)
    \/ IsZeroVector(cosB)

\* r is a number of the given sign with | |r| - 1 | <= 2^-52
NearUnit(r, sign) ==
    /\ ~r.nan
    /\ r.sign = sign
    /\ \/ /\ r.exp = 1 - SigBits
          /\ BigLE(r.sig, BigAdd(BigPow2(SigBits - 1), BigOf(1)))
       \/ /\ r.exp = 0 - SigBits
          /\ BigLE(BigPow2(SigBits), BigAdd(r.sig, BigOf(2)))

\* C23 as stated: cosine returns exactly 0 in its guard cases, and exactly 1
\* for (v, v) and exactly -1 for (v, -v) when v is not a zero vector.
C23_CosineExact ==
    cosPc = "returned" =>
        /\ CosGuarded => cosResult = FZero
        /\ (~CosGuarded /\ cosA = cosB) => cosResult = FOne
        /\ (~CosGuarded /\ cosA = Negated(cosB)) => cosResult = FMinusOne

\* C23, amended: cosine returns exactly 0 in its guard cases and always
\* returns a number; otherwise the result has the sign of the dot product,
\* and for (v, v) and (v, -v) it is 1 and -1 up to the rounding of the
\* square roots, of their product and of the quotient: within 2^-52.
C23_CosineWithinTolerance ==
    cosPc = "returned" =>
        /\ ~cosResult.nan
        /\ CosGuarded => cosResult = FZero
        /\ ~CosGuarded => cosResult.sign = Sgn(CosDot)
        /\ (~CosGuarded /\ cosA = cosB) => NearUnit(cosResult, 1)
        /\ (~CosGuarded /\ cosA = Negated(cosB)) => NearUnit(cosResult, 0 - 1)

\* cosine(<<1, 1>>, <<1, 1>>) has returned a number that is not 1
C23_Witness ==
    /\ cosPc = "returned"
    /\ cosA = <<1, 1>>
    /\ cosB = <<1, 1>>
    /\ cosResult # FOne
    /\ NearUnit(cosResult, 1)

\* cosine has returned 0 for a zero vector and a vector of the same length
C23_WitnessZero ==
    /\ cosPc = "returned"
    /\ cosA = <<0, 0>>
    /\ cosB = <<1, 1>>
    /\ cosResult = FZero

============================================================================
